---- MODULE Spec2Model ----
(***************************************************************************)
(* Model of the gcloud_automation administration scripts:                  *)
(*   proyects/gcloud_projects_V1.py          (provision / delete projects) *)
(*   create_authorized_views_api.py          (authorize silver views)      *)
(*   settings/configure_dataset_table_expiration.py                        *)
(* Python strings that the code transforms are sequences of one-character  *)
(* strings; strings that are only compared are TLA+ strings.               *)
(***************************************************************************)
EXTENDS Integers, Sequences, FiniteSets, TLC

VARIABLES
    script,               \* which script / entry point this invocation runs
    pc,                   \* position in the running script
    choice,               \* main(): the menu choice typed
    dry_run,              \* the dry_run flag handed down to the executing functions
    confirm,              \* the answer typed at the first confirmation prompt
    confirm2,             \* delete_projects_real: the answer at the second prompt
    exit_status,          \* process exit status (sys.exit), 0 when main returns
    companies,            \* the source table settings.companies
    results,              \* rows fetched by the source query of this run
    idx,                  \* position of the row loop in results
    count,                \* rows visited by the loop
    successful_projects,
    failed_projects,
    successful_commands,  \* dry_run_mode / delete_projects_dry_run
    successful_deletions,
    failed_deletions,
    commands,             \* the command dict of the row being executed
    cmd_i,                \* next command of execute_project_creation / _deletion
    success_count,
    total_commands,
    log,                  \* every call made to an external system, in order
    cloud,                \* resources that exist in the target system
    faults,               \* failures the environment has injected so far
    summary,              \* the final summary the run printed, if any
    conditions,           \* per project: what exists there and what the caller may do
    access,               \* per dataset (project, dataset id): its access list
    expiration,           \* per dataset: default_table_expiration_ms, in days
    to_check,             \* real_execution_mode: projects whose permissions are unchecked
    result,               \* the results dict of the company being processed
    stage,                \* the dataset of the company being processed
    view_i,               \* position in SILVER_VIEWS
    dataset_i,            \* position in the dataset list of the project
    views_authorized,
    views_total,
    totals,               \* the run totals of the views and expiration scripts
    last,                 \* outcome of the latest process_dataset_authorization
    ncalls,               \* direct calls made so far
    expiration_ms,        \* the value get_expiration_value returned, in days
    company_new_name,     \* generate_project_id: argument
    company_id,           \* generate_project_id: argument
    project_id            \* generate_project_id: value returned

vars == <<script, pc, choice, dry_run, confirm, confirm2, exit_status, companies,
          results, idx, count, successful_projects, failed_projects,
          successful_commands, successful_deletions, failed_deletions, commands,
          cmd_i, success_count, total_commands, log, cloud, faults, summary,
          conditions, access, expiration, to_check, result, stage, view_i, dataset_i,
          views_authorized, views_total, totals, last, ncalls, expiration_ms,
          company_new_name, company_id, project_id>>

(***************************************************************************)
(* Bounds of the model.                                                    *)
(***************************************************************************)
MaxHead == 2      \* free characters at the start of a generated name
MaxTail == 1      \* free characters at the end of a generated name
MaxPad == 30      \* longest run of padding letters inside a generated name
MaxRows == 2      \* rows of the companies table
MaxFaults == 1    \* failures the environment injects in one run
MaxCalls == 2     \* direct calls of one function in a row

(***************************************************************************)
(* Python values.                                                          *)
(***************************************************************************)
None == <<"None">>      \* Python None / SQL NULL: no string has this shape

UpperCase == <<"A","B","C","D","E","F","G","H","I","J","K","L","M",
               "N","O","P","Q","R","S","T","U","V","W","X","Y","Z">>
LowerCase == <<"a","b","c","d","e","f","g","h","i","j","k","l","m",
               "n","o","p","q","r","s","t","u","v","w","x","y","z">>
Digits == <<"0","1","2","3","4","5","6","7","8","9">>

Range(s) == {s[i] : i \in 1..Len(s)}

Min(a, b) == IF a < b THEN a ELSE b
Max(a, b) == IF a > b THEN a ELSE b

\* str.lower() on one character
LowerChar(c) ==
    IF \E i \in 1..Len(UpperCase) : UpperCase[i] = c
    THEN LowerCase[CHOOSE i \in 1..Len(UpperCase) : UpperCase[i] = c]
    ELSE c

Lower(s) == [i \in 1..Len(s) |-> LowerChar(s[i])]

\* str.replace(c, r) for a one-character c
RECURSIVE Replace(_, _, _)
Replace(s, c, r) ==
    IF s = <<>> THEN <<>>
    ELSE (IF Head(s) = c THEN r ELSE <<Head(s)>>) \o Replace(Tail(s), c, r)

\* s.split('-')[0]: the text before the first hyphen (all of s when it has none)
RECURSIVE SplitFirst(_, _)
SplitFirst(s, c) ==
    IF s = <<>> \/ Head(s) = c THEN <<>>
    ELSE <<Head(s)>> \o SplitFirst(Tail(s), c)

\* re.sub(r'[^a-z0-9-]', '', s)
AllowedChars == Range(LowerCase) \cup Range(Digits) \cup {"-"}
RemoveInvalid(s) == SelectSeq(s, LAMBDA c : c \in AllowedChars)

\* s.strip('-')
RECURSIVE LStrip(_, _)
LStrip(s, c) == IF s # <<>> /\ Head(s) = c THEN LStrip(Tail(s), c) ELSE s
RECURSIVE RStrip(_, _)
RStrip(s, c) ==
    IF s # <<>> /\ s[Len(s)] = c THEN RStrip(SubSeq(s, 1, Len(s) - 1), c) ELSE s
Strip(s, c) == RStrip(LStrip(s, c), c)

\* str(n) for an integer
RECURSIVE StrNat(_)
StrNat(n) ==
    IF n < 10 THEN <<Digits[n + 1]>>
    ELSE StrNat(n \div 10) \o <<Digits[(n % 10) + 1]>>
Str(n) == IF n < 0 THEN <<"-">> \o StrNat(0 - n) ELSE StrNat(n)

\* s[:k]
SliceTo(s, k) ==
    IF k >= 0 THEN SubSeq(s, 1, Min(k, Len(s)))
    ELSE SubSeq(s, 1, Max(0, Len(s) + k))

(***************************************************************************)
(* gcloud_projects_V1.py: generate_project_id                              *)
(***************************************************************************)
MaxProjectIdLen == 30

\* lines 22-24: truncate at the first hyphen
TruncateAtHyphen(name) ==
    IF "-" \in Range(name) THEN SplitFirst(name, "-") ELSE name

\* lines 26-42: lower-case, replace, remove, strip
NormalizeName(name) ==
    LET s1 == Lower(name)
        s2 == Replace(s1, " ", <<"-">>)
        s3 == Replace(s2, "&", <<"a", "n", "d">>)
        s4 == Replace(s3, "(", <<>>)
        s5 == Replace(s4, ")", <<>>)
        s6 == Replace(s5, ".", <<>>)
        s7 == Replace(s6, ",", <<>>)
        s8 == Replace(s7, "'", <<>>)
        s9 == Replace(s8, "\"", <<>>)
    IN  Strip(RemoveInvalid(s9), "-")

\* a plausible slip: cut the whole identifier at the limit
LimitLengthNaive(pid, cid) ==
    IF Len(pid) > MaxProjectIdLen THEN SliceTo(pid, MaxProjectIdLen) ELSE pid

\* lines 47-51: keep the id when the identifier is too long
LimitLength(pid, cid) ==
    IF Len(pid) > MaxProjectIdLen
    THEN LET max_name_length == MaxProjectIdLen - Len(Str(cid)) - 1
         IN  SliceTo(pid, max_name_length) \o <<"-">> \o Str(cid)
    ELSE pid

\* a plausible slip: the name is not cut at its first hyphen
generate_project_id_nosplit(name, cid) ==
    IF name = None \/ name = <<>> THEN None
    ELSE LimitLength(NormalizeName(name) \o <<"-">> \o Str(cid), cid)

generate_project_id(name, cid) ==
    IF name = None \/ name = <<>> THEN None
    ELSE LimitLength(NormalizeName(TruncateAtHyphen(name)) \o <<"-">> \o Str(cid), cid)

(***************************************************************************)
(* gcloud_projects_V1.py: commands                                         *)
(***************************************************************************)
\* a shell command line: the gcloud / bq operation, its project, its argument
Cmd(op, project, arg) == [op |-> op, project |-> project, arg |-> arg]

\* line 78
Datasets == <<"settings", "fivetran", "bronze", "silver", "gold", "management">>

\* the value None of generate_gcp_commands / generate_delete_commands
NoCommands == [project_id |-> None]

\* lines 56-97
generate_gcp_commands(row) ==
    LET pid == generate_project_id(row.company_new_name, row.company_id)
    IN  IF pid = None \/ pid = <<>> THEN NoCommands
        ELSE [company_id |-> row.company_id,
              company_new_name |-> row.company_new_name,
              project_id |-> pid,
              create_project_cmd |-> Cmd("projects_create", pid, ""),
              enable_apis_cmd |-> Cmd("services_enable", pid, "bigquery.googleapis.com"),
              create_datasets_cmds |->
                  [i \in 1..Len(Datasets) |-> Cmd("bq_mk", pid, Datasets[i])],
              create_service_account_cmd |->
                  Cmd("service_accounts_create", pid, "fivetran-account-service"),
              add_bigquery_admin_role_cmd |->
                  Cmd("add_iam_policy_binding", pid, "roles/bigquery.admin")]

\* lines 100-124
generate_delete_commands(row) ==
    LET pid == generate_project_id(row.company_new_name, row.company_id)
    IN  IF pid = None \/ pid = <<>> THEN NoCommands
        ELSE [company_id |-> row.company_id,
              company_new_name |-> row.company_new_name,
              project_id |-> pid,
              delete_project_cmd |-> Cmd("projects_delete", pid, "")]

\* lines 185-209: the order in which execute_project_creation runs the commands
\* a plausible slip: the service account is created before the datasets
CreationSequenceAccountFirst(c) ==
    <<c.create_project_cmd, c.enable_apis_cmd, c.create_service_account_cmd>>
        \o c.create_datasets_cmds \o <<c.add_bigquery_admin_role_cmd>>

CreationSequence(c) ==
    <<c.create_project_cmd, c.enable_apis_cmd>> \o c.create_datasets_cmds
        \o <<c.create_service_account_cmd, c.add_bigquery_admin_role_cmd>>

\* lines 232-235
DeletionSequence(c) == <<c.delete_project_cmd>>

\* lines 438, 613
ResetProjectCmd == Cmd("config_set_project", <<"platform-partners-pro">>, "")

\* a plausible slip: the command is run whatever dry_run says
execute_command_nodry(command, dry, rc) ==
    [spawned |-> TRUE, ok |-> rc = 0]

\* lines 127-148: whether a process is spawned, and the value returned
execute_command(command, dry, rc) ==
    IF dry THEN [spawned |-> FALSE, ok |-> TRUE]
    ELSE [spawned |-> TRUE, ok |-> rc = 0]

(***************************************************************************)
(* The target system behind subprocess.run: gcloud and bq.                 *)
(***************************************************************************)
Res(kind, project, name) == [kind |-> kind, project |-> project, name |-> name]

ProjectRes(p) == Res("project", p, "")

\* the resource a creating command makes
Creates(cmd) ==
    CASE cmd.op = "projects_create" -> {ProjectRes(cmd.project)}
      [] cmd.op = "bq_mk" -> {Res("dataset", cmd.project, cmd.arg)}
      [] cmd.op = "service_accounts_create" -> {Res("service_account", cmd.project, cmd.arg)}
      [] OTHER -> {}

\* exit codes subprocess.run can report for a command (line 137): creating what
\* exists fails, as does any command on a project that does not exist; any
\* command may also fail for a reason of its own
ReturnCodes(cmd) ==
    IF Creates(cmd) \cap cloud # {} THEN {1}
    ELSE IF cmd.op \notin {"projects_create", "config_set_project"}
            /\ ProjectRes(cmd.project) \notin cloud THEN {1}
    ELSE {0} \cup (IF faults < MaxFaults THEN {1} ELSE {})

\* the target system after the command exits with rc
CloudAfter(cmd, rc) ==
    IF rc # 0 THEN cloud
    ELSE IF cmd.op = "projects_delete"
         THEN {r \in cloud : r.project # cmd.project}
         ELSE cloud \cup Creates(cmd)

FaultsAfter(cmd, rc) ==
    IF rc # 0 /\ 0 \in ReturnCodes(cmd) THEN faults + 1 ELSE faults

\* one call of execute_command(cmd, dry): the process it spawns and its effect
Spawn(cmd, dry, rc) ==
    LET r == execute_command(cmd, dry, rc)
    IN  /\ log' = IF r.spawned THEN Append(log, [call |-> "spawn", cmd |-> cmd]) ELSE log
        /\ cloud' = IF r.spawned THEN CloudAfter(cmd, rc) ELSE cloud
        /\ faults' = IF r.spawned THEN FaultsAfter(cmd, rc) ELSE faults

(***************************************************************************)
(* Inputs: the companies table, the target system, what the user types.    *)
(***************************************************************************)
Unset == "<unset>"

AcmeWest == <<"A", "c", "m", "e", "-", "W", "e", "s", "t">>
Bangs == <<"!", "!", "!">>
OldProject == <<"o", "l", "d", "-", "1">>

\* company_new_name values of the table rows
RowNames == {AcmeWest, <<>>, Bangs}

\* company_id of the rows, in the ORDER BY company_id order
CompanyIds == <<7, 8, 9, 10>>

RowKinds == RowNames \X {None, OldProject}

Tables ==
    UNION {{[i \in 1..n |-> [company_id |-> CompanyIds[i],
                             company_new_name |-> k[i][1],
                             company_project_id |-> k[i][2]]] :
            k \in [1..n -> RowKinds]} : n \in 0..MaxRows}

\* a project left behind by an earlier run that did not finish
PreProject == generate_project_id(AcmeWest, CompanyIds[1])
InitialClouds == {{}, {ProjectRes(PreProject), Res("dataset", PreProject, "bronze")}}

Choices == {"1", "2", "3", "4", "5"}
ConfirmInputs == {"SI", "si", " SI", "yes", "ELIMINAR", ""}

NoSummary == [printed |-> FALSE]

genVars == <<company_new_name, company_id, project_id>>
tallyVars == <<count, successful_projects, failed_projects, successful_commands,
               successful_deletions, failed_deletions>>
execVars == <<commands, cmd_i, success_count, total_commands>>
envVars == <<log, cloud, faults, companies>>
promptVars == <<choice, dry_run, confirm, confirm2>>
targetVars == <<conditions, access, expiration>>
procVars == <<result, stage, view_i, dataset_i, views_authorized, views_total>>
apiVars == <<targetVars, to_check, procVars, totals, last, ncalls, expiration_ms>>

(***************************************************************************)
(* gcloud_projects_V1.py: the script                                       *)
(***************************************************************************)
\* a plausible slip: the answer is trimmed and upper-cased before the comparison
ConfirmedSILoose(answer) == answer \in {"SI", "si", " SI"}

\* line 355: the exact token that confirms real_execution_mode
ConfirmedSI(answer) == answer = "SI"

\* line 541: the exact token of the second confirmation of delete_projects_real
ConfirmedDeleteSI(answer) == answer = "SI"

\* a plausible slip: the answer is trimmed and upper-cased before the comparison
ConfirmedEliminarLoose(answer) == answer \in {"ELIMINAR", "SI", "si", " SI"}

\* line 535
ConfirmedEliminar(answer) == answer = "ELIMINAR"

\* lines 616-640: main()
V1_Main(c) ==
    /\ script = "v1" /\ pc = "main"
    /\ choice' = c
    /\ dry_run' = (c \in {"1", "3"})
    /\ pc' = CASE c \in {"1", "3"} -> "query"
               [] c = "2" -> "confirm"
               [] c = "4" -> "confirm_delete"
               [] OTHER -> "done"
    /\ exit_status' = IF c \in {"1", "2", "3", "4"} THEN exit_status ELSE 1
    /\ UNCHANGED <<script, confirm, confirm2, companies, results, idx, tallyVars,
                   execVars, log, cloud, faults, summary, genVars, apiVars>>

\* lines 353-357: real_execution_mode asks once
V1_Confirm(answer) ==
    /\ script = "v1" /\ pc = "confirm"
    /\ confirm' = answer
    /\ IF ConfirmedSI(answer)
       THEN pc' = "query" /\ exit_status' = exit_status
       ELSE pc' = "done" /\ exit_status' = 0
    /\ UNCHANGED <<script, choice, dry_run, confirm2, companies, results, idx,
                   tallyVars, execVars, log, cloud, faults, summary, genVars, apiVars>>

\* lines 533-537: delete_projects_real, first prompt
V1_ConfirmDelete(answer) ==
    /\ script = "v1" /\ pc = "confirm_delete"
    /\ confirm' = answer
    /\ IF ConfirmedEliminar(answer)
       THEN pc' = "confirm_delete2" /\ exit_status' = exit_status
       ELSE pc' = "done" /\ exit_status' = 0
    /\ UNCHANGED <<script, choice, dry_run, confirm2, companies, results, idx,
                   tallyVars, execVars, log, cloud, faults, summary, genVars, apiVars>>

\* lines 539-543: delete_projects_real, second prompt
V1_ConfirmDelete2(answer) ==
    /\ script = "v1" /\ pc = "confirm_delete2"
    /\ confirm2' = answer
    /\ IF ConfirmedDeleteSI(answer)
       THEN pc' = "query" /\ exit_status' = exit_status
       ELSE pc' = "done" /\ exit_status' = 0
    /\ UNCHANGED <<script, choice, dry_run, confirm, companies, results, idx,
                   tallyVars, execVars, log, cloud, faults, summary, genVars, apiVars>>

\* lines 248-281, 359-391, 448-480, 545-576: the source query; when it raises,
\* the outer except prints the error and the real modes go on to their finally
V1_Query(ok) ==
    /\ script = "v1" /\ pc = "query"
    /\ ok \/ faults < MaxFaults
    /\ log' = Append(log, [call |-> "query"])
    /\ IF ok
       THEN /\ results' = companies
            /\ idx' = 1
            /\ count' = 0
            /\ successful_projects' = 0 /\ failed_projects' = 0
            /\ successful_commands' = 0
            /\ successful_deletions' = 0 /\ failed_deletions' = 0
            /\ pc' = "rows"
            /\ UNCHANGED <<faults, exit_status>>
       ELSE /\ faults' = faults + 1
            /\ pc' = IF choice \in {"2", "4"} THEN "finally" ELSE "done"
            /\ exit_status' = IF choice \in {"2", "4"} THEN exit_status ELSE 0
            /\ UNCHANGED <<results, idx, tallyVars>>
    /\ UNCHANGED <<script, promptVars, companies, execVars, cloud, summary, genVars, apiVars>>

\* lines 283-330: dry_run_mode, one row
V1_DryRow ==
    /\ script = "v1" /\ pc = "rows" /\ choice = "1" /\ idx <= Len(results)
    /\ count' = count + 1
    /\ LET row == results[idx]
           c == generate_gcp_commands(row)
       IN  successful_commands' =
               IF row.company_project_id = None /\ c # NoCommands
               THEN successful_commands + 1 ELSE successful_commands
    /\ idx' = idx + 1
    /\ UNCHANGED <<script, pc, promptVars, exit_status, results, successful_projects,
                   failed_projects, successful_deletions, failed_deletions, execVars,
                   envVars, summary, genVars, apiVars>>

\* lines 482-509: delete_projects_dry_run, one row
V1_DeleteDryRow ==
    /\ script = "v1" /\ pc = "rows" /\ choice = "3" /\ idx <= Len(results)
    /\ count' = count + 1
    /\ successful_commands' =
           IF generate_delete_commands(results[idx]) # NoCommands
           THEN successful_commands + 1 ELSE successful_commands
    /\ idx' = idx + 1
    /\ UNCHANGED <<script, pc, promptVars, exit_status, results, successful_projects,
                   failed_projects, successful_deletions, failed_deletions, execVars,
                   envVars, summary, genVars, apiVars>>

\* lines 393-418: real_execution_mode, a row up to the call of
\* execute_project_creation (lines 178-183)
V1_Row ==
    /\ script = "v1" /\ pc = "rows" /\ choice = "2" /\ idx <= Len(results)
    /\ count' = count + 1
    /\ LET row == results[idx]
           c == generate_gcp_commands(row)
       IN  IF row.company_project_id # None
           THEN /\ idx' = idx + 1
                /\ UNCHANGED <<pc, failed_projects, execVars>>
           ELSE IF c = NoCommands
           THEN /\ failed_projects' = failed_projects + 1
                /\ idx' = idx + 1
                /\ commands' = c
                /\ UNCHANGED <<pc, cmd_i, success_count, total_commands>>
           ELSE /\ commands' = c
                /\ cmd_i' = 1 /\ success_count' = 0 /\ total_commands' = 0
                /\ pc' = "creating"
                /\ UNCHANGED <<idx, failed_projects>>
    /\ UNCHANGED <<script, promptVars, exit_status, results, successful_projects,
                   successful_commands, successful_deletions, failed_deletions,
                   envVars, summary, genVars, apiVars>>

\* lines 185-209: execute_project_creation runs its next command
V1_ExecuteCommand(rc) ==
    /\ script \in {"v1", "v1_creation"} /\ pc = "creating"
    /\ cmd_i <= Len(CreationSequence(commands))
    /\ LET cmd == CreationSequence(commands)[cmd_i]
       IN  /\ IF dry_run THEN rc = 0 ELSE rc \in ReturnCodes(cmd)
           /\ Spawn(cmd, dry_run, rc)
           /\ total_commands' = total_commands + 1
           /\ success_count' = IF execute_command(cmd, dry_run, rc).ok
                               THEN success_count + 1 ELSE success_count
    /\ cmd_i' = cmd_i + 1
    /\ UNCHANGED <<script, pc, promptVars, exit_status, companies, results, idx,
                   tallyVars, commands, summary, genVars, apiVars>>

\* lines 158-162: the UPDATE of update_company_project_in_bq
TableAfterUpdate(cid, pid) ==
    [i \in DOMAIN companies |->
        IF companies[i].company_id = cid
        THEN [companies[i] EXCEPT !.company_project_id = pid]
        ELSE companies[i]]

\* a plausible slip: one command that succeeded is enough
AllSuccessSome(sc, tc) == sc > 0

\* line 211
AllSuccess(sc, tc) == sc = tc

\* a plausible slip: the write-back does not look at dry_run
WriteBackAlways(all_success, dry) == all_success

\* line 215: whether update_company_project_in_bq is called
WriteBackDue(all_success, dry) == all_success /\ ~dry

\* lines 211-218 and 412-415, 420-423: the end of execute_project_creation, with
\* the write-back (which raises when the UPDATE fails), and the tally of the row
V1_FinishCreation(wb_ok) ==
    /\ script \in {"v1", "v1_creation"} /\ pc = "creating"
    /\ cmd_i > Len(CreationSequence(commands))
    /\ LET all_success == AllSuccess(success_count, total_commands)
           write_back == WriteBackDue(all_success, dry_run)
       IN  /\ IF write_back THEN wb_ok \/ faults < MaxFaults ELSE wb_ok
           /\ log' = IF write_back
                     THEN Append(log, [call |-> "update_bq",
                                       company_id |-> commands.company_id,
                                       project_id |-> commands.project_id])
                     ELSE log
           /\ companies' = IF write_back /\ wb_ok
                           THEN TableAfterUpdate(commands.company_id, commands.project_id)
                           ELSE companies
           /\ faults' = IF write_back /\ ~wb_ok THEN faults + 1 ELSE faults
           /\ IF script = "v1"
              THEN /\ successful_projects' =
                          IF all_success /\ wb_ok THEN successful_projects + 1
                          ELSE successful_projects
                   /\ failed_projects' =
                          IF all_success /\ wb_ok THEN failed_projects
                          ELSE failed_projects + 1
                   /\ idx' = idx + 1
                   /\ pc' = "rows"
                   /\ UNCHANGED exit_status
              ELSE /\ pc' = "done"
                   /\ exit_status' = IF wb_ok THEN 0 ELSE 1
                   /\ UNCHANGED <<successful_projects, failed_projects, idx>>
    /\ UNCHANGED <<script, promptVars, results, count, successful_commands,
                   successful_deletions, failed_deletions, execVars, cloud, summary,
                   genVars, apiVars>>

\* lines 578-598 with 229-238: delete_projects_real, one row
V1_DeleteRow(rc) ==
    /\ script = "v1" /\ pc = "rows" /\ choice = "4" /\ idx <= Len(results)
    /\ count' = count + 1
    /\ LET c == generate_delete_commands(results[idx])
       IN  IF c.project_id = None
           THEN /\ rc = 0
                /\ failed_deletions' = failed_deletions + 1
                /\ commands' = c
                /\ UNCHANGED <<successful_deletions, cmd_i, success_count,
                               total_commands, log, cloud, faults>>
           ELSE LET cmd == DeletionSequence(c)[1]
                    ok == execute_command(cmd, FALSE, rc).ok
                IN  /\ rc \in ReturnCodes(cmd)
                    /\ Spawn(cmd, FALSE, rc)
                    /\ commands' = c
                    /\ cmd_i' = 2
                    /\ total_commands' = 1
                    /\ success_count' = IF ok THEN 1 ELSE 0
                    /\ successful_deletions' =
                           IF ok THEN successful_deletions + 1 ELSE successful_deletions
                    /\ failed_deletions' =
                           IF ok THEN failed_deletions ELSE failed_deletions + 1
    /\ idx' = idx + 1
    /\ UNCHANGED <<script, pc, promptVars, exit_status, companies, results,
                   successful_projects, failed_projects, successful_commands,
                   summary, genVars, apiVars>>

\* lines 332-335, 425-428, 511-514, 600-603: the summary after the last row
V1_Summary ==
    /\ script = "v1" /\ pc = "rows" /\ idx > Len(results)
    /\ summary' =
           CASE choice = "2" ->
                    [printed |-> TRUE, total |-> count,
                     successful |-> successful_projects, failed |-> failed_projects]
             [] choice = "4" ->
                    [printed |-> TRUE, total |-> count,
                     successful |-> successful_deletions, failed |-> failed_deletions]
             [] OTHER ->
                    [printed |-> TRUE, total |-> count,
                     successful |-> successful_commands,
                     failed |-> count - successful_commands]
    /\ pc' = IF choice \in {"2", "4"} THEN "finally" ELSE "done"
    /\ exit_status' = IF choice \in {"2", "4"} THEN exit_status ELSE 0
    /\ UNCHANGED <<script, promptVars, results, idx, tallyVars, execVars, envVars,
                   genVars, apiVars>>

\* a plausible slip: the reset closes the try block, where a failed query skips it
V1_FinallyInTry(rc) ==
    /\ script = "v1" /\ pc = "finally"
    /\ rc \in ReturnCodes(ResetProjectCmd)
    /\ IF summary.printed
       THEN Spawn(ResetProjectCmd, FALSE, rc)
       ELSE rc = 0 /\ UNCHANGED <<log, cloud, faults>>
    /\ pc' = "done"
    /\ exit_status' = 0
    /\ UNCHANGED <<script, promptVars, companies, results, idx, tallyVars, execVars,
                   summary, genVars, apiVars>>

\* lines 436-438, 611-613: finally, back to the main project
V1_Finally(rc) ==
    /\ script = "v1" /\ pc = "finally"
    /\ rc \in ReturnCodes(ResetProjectCmd)
    /\ Spawn(ResetProjectCmd, FALSE, rc)
    /\ pc' = "done"
    /\ exit_status' = 0
    /\ UNCHANGED <<script, promptVars, companies, results, idx, tallyVars, execVars,
                   summary, genVars, apiVars>>

V1_Next ==
    \/ \E c \in Choices : V1_Main(c)
    \/ \E a \in ConfirmInputs : V1_Confirm(a)
    \/ \E a \in ConfirmInputs : V1_ConfirmDelete(a)
    \/ \E a \in ConfirmInputs : V1_ConfirmDelete2(a)
    \/ \E ok \in BOOLEAN : V1_Query(ok)
    \/ V1_DryRow
    \/ V1_DeleteDryRow
    \/ V1_Row
    \/ \E rc \in {0, 1} : V1_ExecuteCommand(rc)
    \/ \E ok \in BOOLEAN : V1_FinishCreation(ok)
    \/ \E rc \in {0, 1} : V1_DeleteRow(rc)
    \/ V1_Summary
    \/ \E rc \in {0, 1} : V1_Finally(rc)

NoResult == [company_id |-> 0]
NoTotals == [successful_companies |-> 0, failed_companies |-> 0]
NoCall == [made |-> FALSE]

ApiIdle ==
    /\ conditions = <<>> /\ access = <<>> /\ expiration = <<>>
    /\ to_check = {} /\ result = NoResult /\ stage = "" /\ view_i = 0 /\ dataset_i = 0
    /\ views_authorized = 0 /\ views_total = 0 /\ totals = NoTotals
    /\ last = NoCall /\ ncalls = 0 /\ expiration_ms = 0

Idle ==
    /\ choice = Unset /\ dry_run = FALSE /\ confirm = Unset /\ confirm2 = Unset
    /\ exit_status = -1
    /\ results = <<>> /\ idx = 0
    /\ count = 0 /\ successful_projects = 0 /\ failed_projects = 0
    /\ successful_commands = 0 /\ successful_deletions = 0 /\ failed_deletions = 0
    /\ commands = NoCommands /\ cmd_i = 0 /\ success_count = 0 /\ total_commands = 0
    /\ log = <<>> /\ faults = 0 /\ summary = NoSummary

GenIdle == company_new_name = <<>> /\ company_id = 0 /\ project_id = None

\* the script started from the command line
V1_Init ==
    /\ script = "v1" /\ pc = "main"
    /\ Idle /\ GenIdle /\ ApiIdle
    /\ companies \in Tables
    /\ cloud \in InitialClouds

\* execute_project_creation(commands, dry_run) called on the commands of a row
V1_CreationInit ==
    /\ script = "v1_creation" /\ pc = "creating"
    /\ choice = Unset /\ confirm = Unset /\ confirm2 = Unset /\ exit_status = -1
    /\ dry_run \in BOOLEAN
    /\ companies \in Tables
    /\ cloud \in InitialClouds
    /\ results = <<>> /\ idx = 0
    /\ count = 0 /\ successful_projects = 0 /\ failed_projects = 0
    /\ successful_commands = 0 /\ successful_deletions = 0 /\ failed_deletions = 0
    /\ \E i \in DOMAIN companies :
          /\ commands = generate_gcp_commands(companies[i])
          /\ commands.project_id # None
    /\ cmd_i = 1 /\ success_count = 0 /\ total_commands = 0
    /\ log = <<>> /\ faults = 0 /\ summary = NoSummary
    /\ GenIdle /\ ApiIdle

SpecV1 == (V1_Init \/ V1_CreationInit) /\ [][V1_Next]_vars

(***************************************************************************)
(* generate_project_id called on its own.                                  *)
(***************************************************************************)
GenChars == {"A", " ", "-", "&", "!"}
Heads == UNION {[1..n -> GenChars] : n \in 0..MaxHead}
Tails == UNION {[1..n -> GenChars] : n \in 0..MaxTail}
PadCounts == {0, MaxPad - 4, MaxPad - 2, MaxPad}
Pad(k) == [i \in 1..k |-> "x"]

GenNames ==
    {h \o Pad(k) \o t : h \in Heads, k \in PadCounts, t \in Tails}
        \cup {AcmeWest, Bangs, None}
GenIds == {-5, 0, 7, 45, 123}

Gen_Init ==
    /\ script = "gen" /\ pc = "call"
    /\ company_new_name \in GenNames
    /\ company_id \in GenIds
    /\ project_id = None
    /\ Idle /\ ApiIdle
    /\ companies = <<>> /\ cloud = {}

\* lines 14-53
Gen_Call ==
    /\ script = "gen" /\ pc = "call"
    /\ project_id' = generate_project_id(company_new_name, company_id)
    /\ pc' = "done"
    /\ UNCHANGED <<script, promptVars, exit_status, results, idx, tallyVars, execVars,
                   envVars, summary, company_new_name, company_id, apiVars>>

Gen_Next == Gen_Call

SpecGen == Gen_Init /\ [][Gen_Next]_vars

(***************************************************************************)
(* Properties of generate_project_id.                                      *)
(***************************************************************************)
\* the text after the last hyphen of s
RECURSIVE AfterLastHyphen(_)
AfterLastHyphen(s) ==
    IF s = <<>> \/ s[Len(s)] = "-" THEN <<>>
    ELSE AfterLastHyphen(SubSeq(s, 1, Len(s) - 1)) \o <<s[Len(s)]>>

DigitValue(c) == (CHOOSE i \in 1..Len(Digits) : Digits[i] = c) - 1

\* int(s) for a string of digits, -1 for anything else
RECURSIVE ParseNat(_)
ParseNat(s) ==
    IF s = <<>> \/ \E i \in 1..Len(s) : s[i] \notin Range(Digits) THEN -1
    ELSE IF Len(s) = 1 THEN DigitValue(s[1])
    ELSE ParseNat(SubSeq(s, 1, Len(s) - 1)) * 10 + DigitValue(s[Len(s)])

EndsWith(s, t) ==
    Len(s) >= Len(t) /\ SubSeq(s, Len(s) - Len(t) + 1, Len(s)) = t

GenReturned == script = "gen" /\ pc = "done" /\ project_id # None

\* the identifier before any cut to the length limit
Untruncated(name, cid) == NormalizeName(TruncateAtHyphen(name)) \o <<"-">> \o Str(cid)

\* C8: every identifier generate_project_id returns for a non-negative company_id
\* is at most 30 characters long and ends with a hyphen and the decimal
\* company_id, which is the text after its last hyphen, also after truncation.
C8_LengthAndSuffix ==
    (GenReturned /\ company_id >= 0) =>
        /\ Len(project_id) <= MaxProjectIdLen
        /\ EndsWith(project_id, <<"-">> \o Str(company_id))
        /\ AfterLastHyphen(project_id) = Str(company_id)
        /\ ParseNat(AfterLastHyphen(project_id)) = company_id

\* C8 witness: an identifier was returned whose name part had to be truncated
C8_Witness ==
    /\ GenReturned /\ company_id >= 0
    /\ Len(Untruncated(company_new_name, company_id)) > MaxProjectIdLen
    /\ Len(project_id) = MaxProjectIdLen

\* C9: generate_project_id cuts the name at its first hyphen, lower-cases it,
\* turns spaces into hyphens, leaves only lower-case letters, digits and
\* hyphens, and appends a hyphen and the company_id; "Acme-West" with id 7
\* gives "acme-7".
C9_Derivation ==
    GenReturned =>
        /\ Range(project_id) \subseteq AllowedChars
        /\ EndsWith(project_id, <<"-">> \o Str(company_id))
        /\ (SplitFirst(company_new_name, "-") # <<>> =>
               project_id =
                   generate_project_id(SplitFirst(company_new_name, "-"), company_id))
        /\ (company_new_name = <<"A", " ", "A">> =>
               project_id = <<"a", "-", "a", "-">> \o Str(company_id))
        /\ (company_new_name = <<"A", "!", "A">> =>
               project_id = <<"a", "a", "-">> \o Str(company_id))
        /\ (company_new_name = AcmeWest /\ company_id = 7 =>
               project_id = <<"a", "c", "m", "e", "-", "7">>)

\* C9 witness: the scenario of the claim was derived
C9_Witness ==
    /\ GenReturned /\ company_new_name = AcmeWest /\ company_id = 7
    /\ project_id = <<"a", "c", "m", "e", "-", "7">>

(***************************************************************************)
(* create_authorized_views_api.py: the target system                       *)
(***************************************************************************)
\* lines 31-35
SILVER_VIEWS == <<"vw_master_tracker_export", "vw_new_customer_list", "vw_sold_estimates">>

\* line 372
SilverDataset == <<"silver">>

\* line 120
BronzeId == <<"bronze">>

\* lines 90, 408
ServicetitanId(p) == <<"servicetitan_">> \o Replace(p, "-", <<"_">>)

\* the projects the rows of the table name, row by row
RowProjects == [i \in 1..Len(CompanyIds) |-> <<"c", "o", "-">> \o Str(CompanyIds[i])]

DatasetKeys == {<<RowProjects[i], d>> :
                   i \in 1..Len(RowProjects),
                   d \in {BronzeId} \cup {ServicetitanId(RowProjects[j]) : j \in 1..Len(RowProjects)}}

\* an entry of a dataset's access list; one with kind "view" has the key 'view'
ViewEntry(p, d, t) == [kind |-> "view", projectId |-> p, datasetId |-> d, tableId |-> t]
OwnerEntry == [kind |-> "role", projectId |-> <<>>, datasetId |-> <<>>, tableId |-> "OWNER"]

\* what a project holds and allows
Condition(st, br, sv, cl, cp) ==
    [servicetitan |-> st, bronze |-> br, silver |-> sv, can_list |-> cl, can_patch |-> cp]

AllViews == Range(SILVER_VIEWS)
Healthy == Condition(TRUE, TRUE, AllViews, TRUE, TRUE)

ProjectConditions ==
    {Healthy,
     Condition(FALSE, TRUE, AllViews, TRUE, TRUE),
     Condition(TRUE, FALSE, AllViews, TRUE, TRUE),
     Condition(TRUE, TRUE, AllViews \ {SILVER_VIEWS[2]}, TRUE, TRUE),
     Condition(TRUE, TRUE, AllViews, FALSE, TRUE),
     Condition(TRUE, TRUE, AllViews, TRUE, FALSE)}

\* the tables whose rows have projects: row i has project RowProjects[i] or none
ProjectTables ==
    UNION {{[i \in 1..n |-> [company_id |-> CompanyIds[i],
                             company_new_name |-> AcmeWest,
                             company_project_id |-> IF has[i] THEN RowProjects[i] ELSE None]] :
            has \in [1..n -> BOOLEAN]} : n \in 0..MaxRows}

(***************************************************************************)
(* create_authorized_views_api.py: the functions                           *)
(***************************************************************************)
\* the calls that can fail inside one process_dataset_authorization
FaultPoints == {"check_token", "check_get", "token", "get", "patch"}

\* lines 186-193, 243-249: whether the access list holds the view's triple
HasView(acc, p, d, t) ==
    \E i \in 1..Len(acc) :
        /\ acc[i].kind = "view"
        /\ acc[i].projectId = p /\ acc[i].datasetId = d /\ acc[i].tableId = t

\* lines 222-255: check_view_authorization_exists_api
check_view_authorization_exists_api(acc, p, d, t, F) ==
    IF "check_token" \in F THEN [value |-> FALSE, calls |-> <<"token">>]
    ELSE IF "check_get" \in F THEN [value |-> FALSE, calls |-> <<"token", "GET">>]
    ELSE [value |-> HasView(acc, p, d, t), calls |-> <<"token", "GET">>]

\* a plausible slip: the existing entries are not searched before the append
authorize_view_in_dataset_api_nosearch(acc, p, d, t, dry, F) ==
    IF "token" \in F THEN [value |-> "None", access |-> acc, calls |-> <<"token">>]
    ELSE IF dry THEN [value |-> "True", access |-> acc, calls |-> <<"token">>]
    ELSE IF "get" \in F
    THEN [value |-> "False", access |-> acc, calls |-> <<"token", "GET">>]
    ELSE IF "patch" \in F
    THEN [value |-> "False", access |-> acc, calls |-> <<"token", "GET", "PATCH">>]
    ELSE [value |-> "True", access |-> Append(acc, ViewEntry(p, d, t)),
          calls |-> <<"token", "GET", "PATCH">>]

\* lines 145-219: authorize_view_in_dataset_api on a dataset whose access list
\* is acc: the value returned, the access list afterwards, the calls made
authorize_view_in_dataset_api(acc, p, d, t, dry, F) ==
    IF "token" \in F THEN [value |-> "None", access |-> acc, calls |-> <<"token">>]
    ELSE IF dry THEN [value |-> "True", access |-> acc, calls |-> <<"token">>]
    ELSE IF "get" \in F
    THEN [value |-> "False", access |-> acc, calls |-> <<"token", "GET">>]
    ELSE IF HasView(acc, p, d, t)
    THEN [value |-> "SKIP", access |-> acc, calls |-> <<"token", "GET">>]
    ELSE IF "patch" \in F
    THEN [value |-> "False", access |-> acc, calls |-> <<"token", "GET", "PATCH">>]
    ELSE [value |-> "True", access |-> Append(acc, ViewEntry(p, d, t)),
          calls |-> <<"token", "GET", "PATCH">>]

\* a plausible slip: the view is authorized without being looked for first
process_dataset_authorization_nocheck(acc, p, d, t, dry, F) ==
    LET r == authorize_view_in_dataset_api_nosearch(acc, p, d, t, dry, F)
    IN  [success |-> r.value = "True", skipped |-> FALSE,
         access |-> r.access, calls |-> r.calls]

\* lines 297-339: process_dataset_authorization
process_dataset_authorization(acc, p, d, t, dry, F) ==
    LET chk == check_view_authorization_exists_api(acc, p, d, t, F)
        r == authorize_view_in_dataset_api(acc, p, d, t, dry, F)
    IN  IF ~dry /\ chk.value
        THEN [success |-> TRUE, skipped |-> TRUE, access |-> acc, calls |-> chk.calls]
        ELSE [success |-> r.value \in {"SKIP", "True"},
              skipped |-> r.value = "SKIP",
              access |-> r.access,
              calls |-> (IF dry THEN <<>> ELSE chk.calls) \o r.calls]

\* how many entries of the access list name the view
ViewCount(acc, p, d, t) ==
    Cardinality({i \in 1..Len(acc) :
        /\ acc[i].kind = "view"
        /\ acc[i].projectId = p /\ acc[i].datasetId = d /\ acc[i].tableId = t})

\* the request one call logs
ApiCall(call, p, d, t) == [call |-> call, project |-> p, dataset |-> d, view |-> t]

\* the failures a project in this condition produces on every call
PersistentFaults(cond) == IF cond.can_patch THEN {} ELSE {"patch"}

\* the log entries of the calls one process_dataset_authorization made
CallEntries(calls, key, t) ==
    [i \in 1..Len(calls) |-> ApiCall(calls[i], key[1], key[2], t)]

(***************************************************************************)
(* create_authorized_views_api.py: the script                              *)
(***************************************************************************)
\* line 519: the answer that lets real_execution_mode go on
Views_Confirmed(answer) == answer = "SI"

\* lines 358-368: the results of a company before its datasets are processed
FreshResult(cid) ==
    [company_id |-> cid,
     servicetitan_dataset_found |-> FALSE, bronze_dataset_found |-> FALSE,
     servicetitan_view_authorized |-> FALSE, bronze_view_authorized |-> FALSE,
     total_errors |-> 0, error |-> FALSE]

\* lines 548-554: the totals before the first company
ViewsTotals ==
    [total_servicetitan_datasets |-> 0, total_bronze_datasets |-> 0,
     total_servicetitan_authorizations |-> 0, total_bronze_authorizations |-> 0,
     total_errors |-> 0, successful_companies |-> 0, failed_companies |-> 0]

\* line 68: WHERE company_project_id IS NOT NULL
WithProjects(table) == SelectSeq(table, LAMBDA row : row.company_project_id # None)

Bool2Nat(b) == IF b THEN 1 ELSE 0

viewsIdle == <<script, confirm2, tallyVars, execVars, cloud, faults, companies, genVars,
               expiration, expiration_ms, ncalls, last, conditions, dataset_i>>

\* lines 660-670: main reads the mode
Views_Main(c) ==
    /\ script = "views" /\ pc = "main"
    /\ choice' = c
    /\ dry_run' = (c = "2")
    /\ pc' = IF c = "3" THEN "confirm" ELSE IF c \in {"1", "2"} THEN "query" ELSE "done"
    /\ exit_status' = IF c \in {"1", "2", "3"} THEN exit_status ELSE 1
    /\ UNCHANGED <<confirm, results, idx, log, summary, access, to_check, procVars,
                   totals, viewsIdle>>

\* lines 518-521: the confirmation of real_execution_mode
Views_Confirm(answer) ==
    /\ script = "views" /\ pc = "confirm"
    /\ confirm' = answer
    /\ pc' = IF Views_Confirmed(answer) THEN "query" ELSE "done"
    /\ exit_status' = IF Views_Confirmed(answer) THEN exit_status ELSE 0
    /\ UNCHANGED <<choice, dry_run, results, idx, log, summary, access, to_check,
                   procVars, totals, viewsIdle>>

\* lines 54-79 with 470-474, 524-538, 602-606: get_companies_with_projects
Views_GetCompanies(ok) ==
    /\ script = "views" /\ pc = "query"
    /\ log' = Append(log, ApiCall("query", <<>>, <<>>, ""))
    /\ LET rows == IF ok THEN WithProjects(companies) ELSE <<>>
       IN  /\ results' = rows
           /\ idx' = 1
           /\ to_check' = IF choice = "3"
                          THEN {rows[i].company_project_id : i \in 1..Len(rows)}
                          ELSE {}
           /\ pc' = IF rows = <<>> THEN "done"
                    ELSE IF choice = "3" THEN "permissions"
                    ELSE IF choice = "1" THEN "list" ELSE "company"
           /\ exit_status' = IF rows = <<>> THEN 0 ELSE exit_status
    /\ totals' = ViewsTotals
    /\ UNCHANGED <<choice, dry_run, confirm, summary, access, procVars, viewsIdle>>

\* a plausible slip: the except branch answers True as well
check_user_permissions_any(cond) == TRUE

\* lines 280-294: check_user_permissions lists the datasets of the project
check_user_permissions(cond) == cond.can_list

\* lines 540-545 with 280-294: check_user_permissions on one project of the set
Views_CheckPermission(p) ==
    /\ script = "views" /\ pc = "permissions"
    /\ p \in to_check
    /\ log' = Append(log, ApiCall("list_datasets", p, <<>>, ""))
    /\ to_check' = to_check \ {p}
    /\ pc' = IF ~check_user_permissions(conditions[p]) THEN "done"
             ELSE IF to_check' = {} THEN "company" ELSE "permissions"
    /\ exit_status' = IF check_user_permissions(conditions[p]) THEN exit_status ELSE 0
    /\ UNCHANGED <<choice, dry_run, confirm, results, idx, summary, access, procVars,
                   totals, viewsIdle>>

\* lines 342-410: a company starts, check_servicetitan_dataset_exists
Views_Company ==
    /\ script = "views" /\ pc = "company" /\ idx <= Len(results)
    /\ LET row == results[idx]
           p == row.company_project_id
           found == conditions[p].servicetitan
       IN  /\ log' = Append(log, ApiCall("get_dataset", p, ServicetitanId(p), ""))
           /\ result' = [FreshResult(row.company_id) EXCEPT
                            !.servicetitan_dataset_found = found]
           /\ stage' = "servicetitan"
           /\ pc' = IF found THEN "views" ELSE "bronze"
    /\ view_i' = 1 /\ views_authorized' = 0 /\ views_total' = 0
    /\ UNCHANGED <<choice, dry_run, confirm, exit_status, results, idx, summary, access,
                   to_check, totals, viewsIdle>>

\* lines 386-403 and 423-440: one view of SILVER_VIEWS on the dataset of the stage
Views_View ==
    /\ script = "views" /\ pc = "views" /\ view_i <= Len(SILVER_VIEWS)
    /\ LET p == results[idx].company_project_id
           d == IF stage = "servicetitan" THEN ServicetitanId(p) ELSE BronzeId
           t == SILVER_VIEWS[view_i]
           valid == t \in conditions[p].silver
           r == process_dataset_authorization(access[<<p, d>>], p, SilverDataset, t,
                                              dry_run, PersistentFaults(conditions[p]))
           get_table == <<ApiCall("get_table", p, SilverDataset, t)>>
       IN  IF valid
           THEN /\ log' = log \o get_table \o CallEntries(r.calls, <<p, d>>, t)
                /\ access' = [access EXCEPT ![<<p, d>>] = r.access]
                /\ views_total' = views_total + 1
                /\ views_authorized' = views_authorized + Bool2Nat(r.success)
                /\ result' = [result EXCEPT
                                 !.total_errors = @ + Bool2Nat(~r.success)]
           ELSE /\ log' = log \o get_table
                /\ result' = [result EXCEPT !.total_errors = @ + 1]
                /\ UNCHANGED <<access, views_total, views_authorized>>
    /\ view_i' = view_i + 1
    /\ UNCHANGED <<choice, dry_run, confirm, exit_status, results, idx, summary, pc,
                   stage, to_check, totals, viewsIdle>>

\* lines 405-406 and 442-443: the dataset of the stage is done
Views_DatasetDone ==
    /\ script = "views" /\ pc = "views" /\ view_i > Len(SILVER_VIEWS)
    /\ LET all == views_authorized = views_total /\ views_total > 0
       IN  result' = IF stage = "servicetitan"
                     THEN [result EXCEPT !.servicetitan_view_authorized = all]
                     ELSE [result EXCEPT !.bronze_view_authorized = all]
    /\ pc' = IF stage = "servicetitan" THEN "bronze" ELSE "company_done"
    /\ UNCHANGED <<choice, dry_run, confirm, exit_status, results, idx, log, summary,
                   access, to_check, stage, view_i, views_authorized, views_total,
                   totals, viewsIdle>>

\* lines 411-421, 444-445: check_bronze_dataset_exists
Views_Bronze ==
    /\ script = "views" /\ pc = "bronze"
    /\ LET p == results[idx].company_project_id
           found == conditions[p].bronze
       IN  /\ log' = Append(log, ApiCall("get_dataset", p, BronzeId, ""))
           /\ result' = [result EXCEPT !.bronze_dataset_found = found]
           /\ pc' = IF found THEN "views" ELSE "company_done"
    /\ stage' = "bronze"
    /\ view_i' = 1 /\ views_authorized' = 0 /\ views_total' = 0
    /\ UNCHANGED <<choice, dry_run, confirm, exit_status, results, idx, summary, access,
                   to_check, totals, viewsIdle>>

\* lines 447-459 with 486-496 and 558-573: the company's results enter the totals
Views_CompanyDone ==
    /\ script = "views" /\ pc = "company_done"
    /\ LET res == [result EXCEPT !.error = result.total_errors > 0]
       IN  /\ result' = res
           /\ totals' = [totals EXCEPT
                 !.total_servicetitan_datasets = @ + Bool2Nat(res.servicetitan_dataset_found),
                 !.total_bronze_datasets = @ + Bool2Nat(res.bronze_dataset_found),
                 !.total_servicetitan_authorizations =
                     @ + Bool2Nat(res.servicetitan_view_authorized),
                 !.total_bronze_authorizations = @ + Bool2Nat(res.bronze_view_authorized),
                 !.total_errors = @ + Bool2Nat(res.error),
                 !.successful_companies = @ + Bool2Nat(~dry_run /\ ~res.error),
                 !.failed_companies = @ + Bool2Nat(~dry_run /\ res.error)]
    /\ idx' = idx + 1
    /\ pc' = "company"
    /\ UNCHANGED <<choice, dry_run, confirm, exit_status, results, log, summary, access,
                   to_check, stage, view_i, views_authorized, views_total, viewsIdle>>

\* lines 614-637: list_datasets_only looks for the two datasets of a company
Views_ListCompany ==
    /\ script = "views" /\ pc = "list" /\ idx <= Len(results)
    /\ LET p == results[idx].company_project_id
       IN  /\ log' = log \o <<ApiCall("get_dataset", p, ServicetitanId(p), ""),
                              ApiCall("get_dataset", p, BronzeId, "")>>
           /\ totals' = [totals EXCEPT
                 !.total_servicetitan_datasets = @ + Bool2Nat(conditions[p].servicetitan),
                 !.total_bronze_datasets = @ + Bool2Nat(conditions[p].bronze)]
    /\ idx' = idx + 1
    /\ UNCHANGED <<choice, dry_run, confirm, exit_status, results, summary, access, pc,
                   to_check, procVars, viewsIdle>>

\* lines 498-506, 580-590, 639-644: the summary is printed and main returns
Views_Summary ==
    /\ script = "views" /\ pc \in {"company", "list"} /\ idx > Len(results)
    /\ summary' = [printed |-> TRUE, total |-> Len(results),
                   successful |-> totals.successful_companies,
                   failed |-> totals.failed_companies]
    /\ pc' = "done"
    /\ exit_status' = 0
    /\ UNCHANGED <<choice, dry_run, confirm, results, idx, log, access, to_check,
                   procVars, totals, viewsIdle>>

Views_Next ==
    \/ \E c \in Choices : Views_Main(c)
    \/ \E answer \in ConfirmInputs : Views_Confirm(answer)
    \/ \E ok \in BOOLEAN : Views_GetCompanies(ok)
    \/ \E p \in to_check : Views_CheckPermission(p)
    \/ Views_Company
    \/ Views_View
    \/ Views_DatasetDone
    \/ Views_Bronze
    \/ Views_CompanyDone
    \/ Views_ListCompany
    \/ Views_Summary

\* one unhealthy project at most, and every dataset starts with the same entries
ViewsTargets ==
    {[p \in Range(RowProjects) |-> IF p = bad THEN c ELSE Healthy] :
        bad \in Range(RowProjects), c \in ProjectConditions}

ViewsAccess ==
    {[k \in DatasetKeys |-> IF n = 1 THEN <<OwnerEntry>>
                            ELSE IF n = 2
                            THEN <<OwnerEntry, ViewEntry(k[1], SilverDataset, SILVER_VIEWS[1])>>
                            ELSE <<ViewEntry(k[1], SilverDataset, SILVER_VIEWS[3]), OwnerEntry,
                                   ViewEntry(OldProject, SilverDataset, SILVER_VIEWS[1])>>] :
        n \in 1..3}

\* the script started from the command line
Views_Init ==
    /\ script = "views" /\ pc = "main"
    /\ Idle /\ GenIdle
    /\ companies \in ProjectTables
    /\ cloud = {}
    /\ conditions \in ViewsTargets
    /\ access \in ViewsAccess
    /\ expiration = <<>>
    /\ to_check = {} /\ result = NoResult /\ stage = "" /\ view_i = 0 /\ dataset_i = 0
    /\ views_authorized = 0 /\ views_total = 0 /\ totals = NoTotals
    /\ last = NoCall /\ ncalls = 0 /\ expiration_ms = 0

SpecViews == Views_Init /\ [][Views_Next]_vars

(***************************************************************************)
(* process_dataset_authorization called on its own, several times in a row  *)
(***************************************************************************)
CallProject == RowProjects[1]
CallKey == <<CallProject, BronzeId>>
CallViews == {SILVER_VIEWS[1], SILVER_VIEWS[2]}

\* the failures of one call: any of the requests it makes
FaultSets == {F \in SUBSET FaultPoints : Cardinality(F) <= MaxFaults}

\* what one call leaves behind for the next one to be compared with
LastCall(t, dry, F, r, before) ==
    [made |-> TRUE, view |-> t, dry_run |-> dry, failing |-> F,
     success |-> r.success, skipped |-> r.skipped, calls |-> r.calls,
     repeat |-> before.made /\ before.view = t /\ before.success /\ ~before.dry_run]

Views_CallInit ==
    /\ script = "views_call" /\ pc = "call"
    /\ choice = Unset /\ confirm = Unset /\ confirm2 = Unset /\ exit_status = -1
    /\ dry_run \in BOOLEAN
    /\ results = <<>> /\ idx = 0
    /\ count = 0 /\ successful_projects = 0 /\ failed_projects = 0
    /\ successful_commands = 0 /\ successful_deletions = 0 /\ failed_deletions = 0
    /\ commands = NoCommands /\ cmd_i = 0 /\ success_count = 0 /\ total_commands = 0
    /\ log = <<>> /\ faults = 0 /\ summary = NoSummary
    /\ GenIdle
    /\ companies = <<>> /\ cloud = {}
    /\ conditions = <<>> /\ expiration = <<>>
    /\ access \in {[k \in {CallKey} |-> a] :
                      a \in {<<OwnerEntry>>,
                             <<OwnerEntry, ViewEntry(CallProject, SilverDataset, SILVER_VIEWS[1])>>,
                             <<ViewEntry(OldProject, SilverDataset, SILVER_VIEWS[1]), OwnerEntry>>}}
    /\ to_check = {} /\ result = NoResult /\ stage = "" /\ view_i = 0 /\ dataset_i = 0
    /\ views_authorized = 0 /\ views_total = 0 /\ totals = NoTotals
    /\ last = [made |-> FALSE, view |-> "", dry_run |-> FALSE, failing |-> {},
               success |-> FALSE, skipped |-> FALSE, calls |-> <<>>, repeat |-> FALSE]
    /\ ncalls = 0 /\ expiration_ms = 0

\* lines 297-339: one call of process_dataset_authorization
Views_Call(t, F) ==
    /\ script = "views_call" /\ pc = "call"
    /\ ncalls < MaxCalls
    /\ LET r == process_dataset_authorization(access[CallKey], CallProject, SilverDataset,
                                              t, dry_run, F)
       IN  /\ access' = [access EXCEPT ![CallKey] = r.access]
           /\ log' = log \o CallEntries(r.calls, CallKey, t)
           /\ last' = LastCall(t, dry_run, F, r, last)
    /\ ncalls' = ncalls + 1
    /\ faults' = faults + Cardinality(F)
    /\ UNCHANGED <<script, pc, promptVars, exit_status, results, idx, tallyVars, execVars,
                   cloud, companies, summary, genVars, conditions, expiration, to_check,
                   procVars, totals, expiration_ms>>

ViewsCall_Next == \E t \in CallViews, F \in FaultSets : Views_Call(t, F)

SpecViewsCall == Views_CallInit /\ [][ViewsCall_Next]_vars

\* C4: in real mode, a view whose authorization succeeded and is authorized
\* again on the dataset as the first call left it is never sent in a second
\* PATCH and has exactly one entry in the access list; and whenever one of
\* the two reads of the dataset answers, the second attempt is a success
\* recorded as skipped.
C4_AuthorizeIdempotent ==
    (script = "views_call" /\ last.made /\ last.repeat /\ ~last.dry_run) =>
        /\ ~(\E i \in 1..Len(last.calls) : last.calls[i] = "PATCH")
        /\ ViewCount(access[CallKey], CallProject, SilverDataset, last.view) = 1
        /\ (~({"check_token", "check_get"} \cap last.failing # {}
              /\ {"token", "get"} \cap last.failing # {})
            => last.success /\ last.skipped)

\* C4: a second real attempt after a first one that sent the PATCH
C4_Witness ==
    /\ script = "views_call" /\ last.made /\ last.repeat /\ ~last.dry_run
    /\ last.success /\ last.skipped
    /\ \E i \in 1..Len(log) : log[i].call = "PATCH" /\ log[i].view = last.view

(***************************************************************************)
(* settings/configure_dataset_table_expiration.py                          *)
(* Expiration values are counted in days: DEFAULT_TABLE_EXPIRATION_MS and   *)
(* every value of get_expiration_value is a number of days times            *)
(* 24*60*60*1000, and 0 stands for a dataset without expiration (None).     *)
(***************************************************************************)
\* line 36: 90 * 24 * 60 * 60 * 1000 ms
DEFAULT_TABLE_EXPIRATION_DAYS == 90

\* the answers to "Ingresa el numero de dias"
DaysInputs == {<<>>, <<"3", "0">>, <<"0">>, <<"x">>}

\* lines 438-447: the value get_expiration_value returns, 0 when it asks again
get_expiration_value(days_input) ==
    IF days_input = <<>> THEN DEFAULT_TABLE_EXPIRATION_DAYS
    ELSE IF \A i \in 1..Len(days_input) : days_input[i] \in Range(Digits)
    THEN ParseNat(days_input)
    ELSE 0

\* what a project holds and allows
ExpCondition(ds, cl, gone, cg, cu) ==
    [datasets |-> ds, can_list |-> cl, gone |-> gone, can_get |-> cg, can_update |-> cu]

ExpDatasets == <<"bronze", "silver">>
ExpHealthy == ExpCondition(ExpDatasets, TRUE, {}, TRUE, TRUE)

ExpConditions ==
    {ExpHealthy,
     ExpCondition(<<>>, TRUE, {}, TRUE, TRUE),
     ExpCondition(ExpDatasets, FALSE, {}, TRUE, TRUE),
     ExpCondition(ExpDatasets, TRUE, {"silver"}, TRUE, TRUE),
     ExpCondition(ExpDatasets, TRUE, {}, FALSE, TRUE),
     ExpCondition(ExpDatasets, TRUE, {}, TRUE, FALSE)}

\* lines 79-96: list_datasets_in_project
list_datasets_in_project(cond) == IF cond.can_list THEN cond.datasets ELSE <<>>

\* a plausible slip: the dataset is updated without the new value set on it
configure_dataset_expiration_stale(cond, d, current, target, dry) ==
    IF ~cond.can_get
    THEN [success |-> FALSE, skipped |-> FALSE, value |-> current,
          calls |-> <<"get_dataset">>]
    ELSE IF d \in cond.gone
    THEN [success |-> FALSE, skipped |-> TRUE, value |-> current,
          calls |-> <<"get_dataset">>]
    ELSE IF current = target
    THEN [success |-> TRUE, skipped |-> TRUE, value |-> current,
          calls |-> <<"get_dataset">>]
    ELSE IF dry
    THEN [success |-> TRUE, skipped |-> FALSE, value |-> current,
          calls |-> <<"get_dataset">>]
    ELSE IF ~cond.can_update
    THEN [success |-> FALSE, skipped |-> FALSE, value |-> current,
          calls |-> <<"get_dataset", "update_dataset">>]
    ELSE [success |-> TRUE, skipped |-> FALSE, value |-> current,
          calls |-> <<"get_dataset", "update_dataset">>]

\* lines 115-197: configure_dataset_expiration on a dataset whose expiration is
\* `current`: the dict returned, the expiration afterwards, the calls made
configure_dataset_expiration(cond, d, current, target, dry) ==
    IF ~cond.can_get
    THEN [success |-> FALSE, skipped |-> FALSE, value |-> current,
          calls |-> <<"get_dataset">>]
    ELSE IF d \in cond.gone
    THEN [success |-> FALSE, skipped |-> TRUE, value |-> current,
          calls |-> <<"get_dataset">>]
    ELSE IF current = target
    THEN [success |-> TRUE, skipped |-> TRUE, value |-> current,
          calls |-> <<"get_dataset">>]
    ELSE IF dry
    THEN [success |-> TRUE, skipped |-> FALSE, value |-> current,
          calls |-> <<"get_dataset">>]
    ELSE IF ~cond.can_update
    THEN [success |-> FALSE, skipped |-> FALSE, value |-> current,
          calls |-> <<"get_dataset", "update_dataset">>]
    ELSE [success |-> TRUE, skipped |-> FALSE, value |-> target,
          calls |-> <<"get_dataset", "update_dataset">>]

\* lines 218-227: the results of a company before its datasets are processed
ExpFreshResult(cid) ==
    [company_id |-> cid, datasets_found |-> 0, datasets_configured |-> 0,
     datasets_skipped |-> 0, datasets_failed |-> 0, errors |-> 0]

\* a plausible slip: a dataset that is not found is counted nowhere
TallyDatasetLoose(res, r) ==
    IF r.success
    THEN IF r.skipped
         THEN [res EXCEPT !.datasets_skipped = @ + 1]
         ELSE [res EXCEPT !.datasets_configured = @ + 1]
    ELSE IF r.skipped THEN [res EXCEPT !.errors = @ + 1]
    ELSE [res EXCEPT !.datasets_failed = @ + 1, !.errors = @ + 1]

\* lines 258-266: the result of one dataset enters the company's results
TallyDataset(res, r) ==
    IF r.success
    THEN IF r.skipped
         THEN [res EXCEPT !.datasets_skipped = @ + 1]
         ELSE [res EXCEPT !.datasets_configured = @ + 1]
    ELSE [res EXCEPT !.datasets_failed = @ + 1, !.errors = @ + 1]

\* lines 341-346: the totals before the first company
ExpTotals ==
    [total_datasets |-> 0, total_configured |-> 0, total_skipped |-> 0,
     total_failed |-> 0, successful_companies |-> 0, failed_companies |-> 0]

\* lines 302-305 and 351-359: the results of a company enter the totals
TallyCompany(tot, res, dry) ==
    [tot EXCEPT
        !.total_datasets = @ + res.datasets_found,
        !.total_configured = @ + res.datasets_configured,
        !.total_skipped = @ + res.datasets_skipped,
        !.total_failed = @ + res.datasets_failed,
        !.successful_companies = @ + Bool2Nat(~dry /\ res.datasets_failed = 0),
        !.failed_companies = @ + Bool2Nat(~dry /\ res.datasets_failed # 0)]

\* lines 53-54: WHERE company_project_id IS NOT NULL AND company_project_id != ''
WithNonEmptyProjects(table) ==
    SelectSeq(table, LAMBDA row : row.company_project_id # None /\ row.company_project_id # <<>>)

\* line 329: the answer that lets real_execution_mode go on
Exp_Confirmed(answer) == answer = "SI"

expIdle == <<script, confirm2, tallyVars, execVars, cloud, faults, companies, genVars,
             access, to_check, stage, view_i, views_authorized, views_total, ncalls, last,
             conditions>>

\* lines 471-483: main reads the mode
Exp_Main(c) ==
    /\ script = "expiration" /\ pc = "main"
    /\ choice' = c
    /\ dry_run' = (c = "2")
    /\ pc' = IF c \in {"2", "3"} THEN "days" ELSE IF c = "1" THEN "query" ELSE "done"
    /\ exit_status' = IF c \in {"1", "2", "3"} THEN exit_status ELSE 1
    /\ UNCHANGED <<confirm, results, idx, log, summary, expiration, expiration_ms, result,
                   dataset_i, totals, expIdle>>

\* lines 425-453: get_expiration_value asks until the answer is a number of days
Exp_GetExpiration(days_input) ==
    /\ script = "expiration" /\ pc = "days"
    /\ LET value == get_expiration_value(days_input)
       IN  /\ expiration_ms' = value
           /\ pc' = IF value <= 0 THEN "days"
                    ELSE IF choice = "3" THEN "confirm" ELSE "query"
    /\ UNCHANGED <<choice, dry_run, confirm, exit_status, results, idx, log, summary,
                   expiration, result, dataset_i, totals, expIdle>>

\* lines 328-331: the confirmation of real_execution_mode
Exp_Confirm(answer) ==
    /\ script = "expiration" /\ pc = "confirm"
    /\ confirm' = answer
    /\ pc' = IF Exp_Confirmed(answer) THEN "query" ELSE "done"
    /\ exit_status' = IF Exp_Confirmed(answer) THEN exit_status ELSE 0
    /\ UNCHANGED <<choice, dry_run, results, idx, log, summary, expiration,
                   expiration_ms, result, dataset_i, totals, expIdle>>

\* lines 39-76 with 287-291, 333-337, 386-390: get_companies_with_projects
Exp_GetCompanies(ok) ==
    /\ script = "expiration" /\ pc = "query"
    /\ log' = Append(log, ApiCall("query", <<>>, <<>>, ""))
    /\ LET rows == IF ok THEN WithNonEmptyProjects(companies) ELSE <<>>
       IN  /\ results' = rows
           /\ pc' = IF rows = <<>> THEN "done"
                    ELSE IF choice = "1" THEN "list" ELSE "company"
           /\ exit_status' = IF rows = <<>> THEN 0 ELSE exit_status
    /\ idx' = 1
    /\ totals' = ExpTotals
    /\ UNCHANGED <<choice, dry_run, confirm, summary, expiration, expiration_ms, result,
                   dataset_i, expIdle>>

\* lines 208-238: process_company_datasets lists the datasets of the project
Exp_Company ==
    /\ script = "expiration" /\ pc = "company" /\ idx <= Len(results)
    /\ LET row == results[idx]
           p == row.company_project_id
           datasets == list_datasets_in_project(conditions[p])
       IN  /\ log' = Append(log, ApiCall("list_datasets", p, <<>>, ""))
           /\ result' = IF datasets = <<>>
                        THEN [ExpFreshResult(row.company_id) EXCEPT !.errors = 1]
                        ELSE [ExpFreshResult(row.company_id) EXCEPT
                                 !.datasets_found = Len(datasets)]
           /\ pc' = IF datasets = <<>> THEN "company_done" ELSE "datasets"
    /\ dataset_i' = 1
    /\ UNCHANGED <<choice, dry_run, confirm, exit_status, results, idx, summary,
                   expiration, expiration_ms, totals, expIdle>>

\* lines 241-266: one dataset of the project
Exp_Dataset ==
    /\ script = "expiration" /\ pc = "datasets"
    /\ LET p == results[idx].company_project_id
           cond == conditions[p]
           datasets == list_datasets_in_project(cond)
       IN  /\ dataset_i <= Len(datasets)
           /\ LET d == datasets[dataset_i]
                  r == configure_dataset_expiration(cond, d, expiration[<<p, d>>],
                                                    expiration_ms, dry_run)
              IN  /\ log' = log \o <<ApiCall("get_dataset", p, <<d>>, "")>>
                                \o CallEntries(r.calls, <<p, <<d>>>>, "")
                  /\ expiration' = [expiration EXCEPT ![<<p, d>>] = r.value]
                  /\ result' = TallyDataset(result, r)
    /\ dataset_i' = dataset_i + 1
    /\ UNCHANGED <<choice, dry_run, confirm, exit_status, results, idx, summary, pc,
                   expiration_ms, totals, expIdle>>

\* lines 268-275 with 301-305 and 350-359: the company's results enter the totals
Exp_CompanyDone ==
    /\ script = "expiration"
    /\ \/ pc = "company_done"
       \/ /\ pc = "datasets"
          /\ dataset_i > Len(list_datasets_in_project(
                                 conditions[results[idx].company_project_id]))
    /\ totals' = TallyCompany(totals, result, dry_run)
    /\ idx' = idx + 1
    /\ pc' = "company"
    /\ UNCHANGED <<choice, dry_run, confirm, exit_status, results, log, summary,
                   expiration, expiration_ms, result, dataset_i, expIdle>>

\* lines 396-416: list_datasets_only reads the expiration of every dataset
Exp_ListCompany ==
    /\ script = "expiration" /\ pc = "list" /\ idx <= Len(results)
    /\ LET p == results[idx].company_project_id
           datasets == list_datasets_in_project(conditions[p])
       IN  /\ log' = log \o <<ApiCall("list_datasets", p, <<>>, "")>>
                         \o [i \in 1..Len(datasets) |->
                                ApiCall("get_dataset", p, <<datasets[i]>>, "")]
           /\ totals' = [totals EXCEPT !.total_datasets = @ + Len(datasets)]
    /\ idx' = idx + 1
    /\ UNCHANGED <<choice, dry_run, confirm, exit_status, results, summary, pc,
                   expiration, expiration_ms, result, dataset_i, expIdle>>

\* lines 307-314, 367-376, 418-422: the summary is printed and main returns
Exp_Summary ==
    /\ script = "expiration" /\ pc \in {"company", "list"} /\ idx > Len(results)
    /\ summary' = [printed |-> TRUE, total |-> Len(results),
                   successful |-> totals.successful_companies,
                   failed |-> totals.failed_companies]
    /\ pc' = "done"
    /\ exit_status' = 0
    /\ UNCHANGED <<choice, dry_run, confirm, results, idx, log, expiration,
                   expiration_ms, result, dataset_i, totals, expIdle>>

Exp_Next ==
    \/ \E c \in Choices : Exp_Main(c)
    \/ \E days_input \in DaysInputs : Exp_GetExpiration(days_input)
    \/ \E answer \in ConfirmInputs : Exp_Confirm(answer)
    \/ \E ok \in BOOLEAN : Exp_GetCompanies(ok)
    \/ Exp_Company
    \/ Exp_Dataset
    \/ Exp_CompanyDone
    \/ Exp_ListCompany
    \/ Exp_Summary

\* one unhealthy project at most
ExpTargets ==
    {[p \in Range(RowProjects) |-> IF p = bad THEN c ELSE ExpHealthy] :
        bad \in Range(RowProjects), c \in ExpConditions}

\* the expirations the datasets start with: none, 30 days, the default
ExpStartValues == {0, 30, DEFAULT_TABLE_EXPIRATION_DAYS}

ExpKeys == {<<RowProjects[i], ExpDatasets[j]>> :
               i \in 1..Len(RowProjects), j \in 1..Len(ExpDatasets)}

ExpExpirations ==
    {[k \in ExpKeys |-> IF k[2] = ExpDatasets[1] THEN v1 ELSE v2] :
        v1 \in ExpStartValues, v2 \in ExpStartValues}

\* the script started from the command line
Exp_Init ==
    /\ script = "expiration" /\ pc = "main"
    /\ Idle /\ GenIdle
    /\ companies \in ProjectTables
    /\ cloud = {}
    /\ conditions \in ExpTargets
    /\ expiration \in ExpExpirations
    /\ access = <<>>
    /\ to_check = {} /\ result = NoResult /\ stage = "" /\ view_i = 0 /\ dataset_i = 0
    /\ views_authorized = 0 /\ views_total = 0 /\ totals = NoTotals
    /\ last = NoCall /\ ncalls = 0 /\ expiration_ms = 0

SpecExp == Exp_Init /\ [][Exp_Next]_vars

(***************************************************************************)
(* The scripts together: one run of one of them                            *)
(***************************************************************************)
Init ==
    \/ V1_Init
    \/ V1_CreationInit
    \/ Gen_Init
    \/ Views_Init
    \/ Views_CallInit
    \/ Exp_Init

Next ==
    \/ V1_Next
    \/ Gen_Next
    \/ Views_Next
    \/ ViewsCall_Next
    \/ Exp_Next

Spec == Init /\ [][Next]_vars

(***************************************************************************)
(* Properties of the modes and confirmations                               *)
(***************************************************************************)
\* the calls that change the target system or the companies table
MutatingCalls == {"spawn", "PATCH", "update_dataset", "update_bq"}

NewCalls == {log'[i].call : i \in (Len(log) + 1)..Len(log')}

\* C1: in dry-run mode no step makes a mutating call - execute_command spawns
\* no process, authorize_view_in_dataset_api sends no PATCH,
\* configure_dataset_expiration calls no update_dataset - and every step
\* leaves the target system (projects and their resources, access lists,
\* expirations) and the companies table as they were.
C1_DryRunNeverMutates ==
    [][dry_run' =>
          /\ NewCalls \cap MutatingCalls = {}
          /\ cloud' = cloud /\ access' = access /\ expiration' = expiration
          /\ companies' = companies]_vars

\* C1: a dry run of execute_project_creation that went through every command
C1_Witness ==
    /\ script = "v1_creation" /\ dry_run /\ pc = "done"
    /\ total_commands = Len(CreationSequence(commands))
    /\ success_count = total_commands

\* C1: a dry run of the views script that "authorized" views in a dataset
C1_WitnessView ==
    /\ script = "views" /\ dry_run /\ summary.printed
    /\ totals.total_bronze_authorizations > 0
    /\ \E i \in 1..Len(log) : log[i].call = "token"

\* C1: a dry run of the expiration script that "configured" a dataset
C1_WitnessExpiration ==
    /\ script = "expiration" /\ dry_run /\ summary.printed
    /\ totals.total_configured > 0

\* the choice of the menu that starts real_execution_mode
RealChoice == IF script = "v1" THEN "2" ELSE "3"

\* C2: in real_execution_mode of the three scripts, an answer to the
\* confirmation prompt other than exactly "SI" ends the run with nothing
\* done: no query of the source table, no command, no API call, no write-back.
C2_DeclinedRunsNothing ==
    (/\ script \in {"v1", "views", "expiration"}
     /\ choice = RealChoice
     /\ confirm \notin {Unset, "SI"})
    => /\ log = <<>>
       /\ pc = "done"
       /\ ~summary.printed

\* C2: the answer "si" was given to the prompt of the views script
C2_Witness ==
    /\ script = "views" /\ choice = "3" /\ confirm = "si" /\ pc = "done"

\* C3: delete_projects_real makes its first call (the query, and so every
\* deletion command) only after "ELIMINAR" and then "SI" were typed; the
\* second prompt is shown only after the first was answered "ELIMINAR".
C3_DeleteNeedsBothConfirmations ==
    (script = "v1" /\ choice = "4")
    => /\ (log # <<>> => confirm = "ELIMINAR" /\ confirm2 = "SI")
       /\ (confirm2 # Unset => confirm = "ELIMINAR")
       /\ ((confirm \notin {Unset, "ELIMINAR"} \/ confirm2 \notin {Unset, "SI"})
           => pc = "done")

\* C3: a project was deleted
C3_Witness ==
    /\ script = "v1" /\ choice = "4"
    /\ \E i \in 1..Len(log) :
          log[i].call = "spawn" /\ log[i].cmd.op = "projects_delete"

\* C5: no bq mk is spawned for a dataset that the project already has
C5_ExistingDatasetSkipped ==
    [][\A i \in (Len(log) + 1)..Len(log') :
          (log'[i].call = "spawn" /\ log'[i].cmd.op = "bq_mk")
          => Res("dataset", log'[i].cmd.project, log'[i].cmd.arg) \notin cloud]_vars

\* C6: the summary of a real provisioning run has
\* successful_projects + failed_projects = the companies processed
C6_TallyCoversProcessed ==
    (script = "v1" /\ choice = "2" /\ summary.printed)
    => summary.successful + summary.failed = summary.total

\* C7: in the dry and real runs of the expiration script, the datasets of a
\* company handled so far are each counted once as configured, skipped or
\* failed, so that a finished company has configured + skipped + failed =
\* datasets_found, and so have the totals of the run.
C7_ExpirationTallies ==
    (script = "expiration" /\ choice \in {"2", "3"})
    => /\ (pc = "datasets" =>
              /\ result.datasets_configured + result.datasets_skipped
                   + result.datasets_failed = dataset_i - 1
              /\ dataset_i - 1 <= result.datasets_found)
       /\ (pc = "company_done" =>
              /\ result.datasets_found = 0
              /\ result.datasets_configured + result.datasets_skipped
                   + result.datasets_failed = 0)
       /\ (pc = "company" \/ summary.printed =>
              /\ totals.total_configured + totals.total_skipped + totals.total_failed
                   = totals.total_datasets
              /\ (idx > 1 =>
                     result.datasets_configured + result.datasets_skipped
                       + result.datasets_failed = result.datasets_found))

\* C7: a finished run that configured, skipped and failed datasets
C7_Witness ==
    /\ script = "expiration" /\ choice \in {"2", "3"} /\ summary.printed
    /\ totals.total_configured > 0 /\ totals.total_skipped > 0 /\ totals.total_failed > 0

\* C10: no command is run for a row whose name part is empty
C10_EmptyNamePartFails ==
    script = "v1" =>
        \A i \in 1..Len(log) : \A k \in 1..Len(companies) :
            (/\ log[i].call = "spawn"
             /\ NormalizeName(TruncateAtHyphen(companies[k].company_new_name)) = <<>>)
            => log[i].cmd.project # <<"-">> \o Str(companies[k].company_id)

(***************************************************************************)
(* Properties of the loops over the companies                              *)
(***************************************************************************)
\* a confirmed real_execution_mode
RealRun == script \in {"v1", "views", "expiration"} /\ choice = RealChoice

\* the positions inside the loop over the companies
ItemStates == {"rows", "creating", "company", "views", "bronze", "company_done", "datasets"}

\* the command spawned in this step, if it was to create something, created nothing
CreateFailed ==
    \E i \in (Len(log) + 1)..Len(log') :
        /\ log'[i].call = "spawn"
        /\ Creates(log'[i].cmd) # {}
        /\ cloud' = cloud

\* C11: in the real mode of the three scripts a failed Action is counted
\* (a command that created nothing is no success of its row, a refused PATCH
\* is an error of its company, a refused update_dataset is a failed dataset),
\* the WorkItem it belongs to enters the failed count and not the successful
\* one, the loop goes on to the next WorkItem, and it is left only after the
\* last WorkItem, with the summary.
C11_FailureNeverAborts ==
    [][RealRun =>
          /\ (pc \in ItemStates /\ pc' \notin ItemStates)
                => (idx > Len(results) /\ summary'.printed)
          /\ (script = "v1" /\ pc = "creating" /\ CreateFailed)
                => (success_count' = success_count /\ total_commands' = total_commands + 1
                    /\ pc' = "creating")
          /\ (script = "v1" /\ pc = "creating" /\ pc' = "rows")
                => /\ idx' = idx + 1
                   /\ (success_count < total_commands \/ companies' = companies)
                         => /\ failed_projects' = failed_projects + 1
                            /\ successful_projects' = successful_projects
          /\ (script = "views" /\ "PATCH" \in NewCalls /\ access' = access)
                => (result'.total_errors = result.total_errors + 1 /\ pc' = pc)
          /\ (script = "views" /\ pc = "company_done" /\ pc' = "company")
                => /\ idx' = idx + 1
                   /\ result.total_errors > 0
                         => /\ totals'.failed_companies = totals.failed_companies + 1
                            /\ totals'.successful_companies = totals.successful_companies
          /\ (script = "expiration" /\ "update_dataset" \in NewCalls
                /\ expiration' = expiration)
                => (result'.datasets_failed = result.datasets_failed + 1 /\ pc' = pc)
          /\ (script = "expiration" /\ pc \in {"datasets", "company_done"}
                /\ pc' = "company")
                => /\ idx' = idx + 1
                   /\ result.datasets_failed > 0
                         => /\ totals'.failed_companies = totals.failed_companies + 1
                            /\ totals'.successful_companies = totals.successful_companies
      ]_vars

\* C11: a real provisioning run whose first company failed on a command and
\* whose second company was provisioned
C11_Witness ==
    /\ script = "v1" /\ choice = "2" /\ summary.printed
    /\ Len(results) = 2
    /\ results[1].company_project_id = None
    /\ summary.failed = 1 /\ summary.successful = 1
    /\ \E i \in 1..Len(log) :
          /\ log[i].call = "update_bq"
          /\ log[i].company_id = results[2].company_id
    /\ companies[1].company_project_id = None

\* the write-backs among the calls of this step
NewWriteBacks == {i \in (Len(log) + 1)..Len(log') : log'[i].call = "update_bq"}

\* the step in which execute_project_creation returns
CreationReturns == script \in {"v1", "v1_creation"} /\ pc = "creating" /\ pc' # "creating"

\* C12: update_company_project_in_bq is called only in real mode, at the
\* return of execute_project_creation, after the last command was run, when
\* every command succeeded and what they create exists, with the company_id
\* and project_id of the WorkItem, and not for a company_id it was called for
\* before; and a real execute_project_creation whose commands all succeeded
\* calls it exactly once.
C12_WriteBackOnce ==
    [][/\ \A i \in NewWriteBacks :
             /\ CreationReturns /\ ~dry_run
             /\ Cardinality(NewWriteBacks) = 1
             /\ total_commands = Len(CreationSequence(commands))
             /\ success_count = total_commands
             /\ \A k \in 1..Len(CreationSequence(commands)) :
                   Creates(CreationSequence(commands)[k]) \subseteq cloud
             /\ log[Len(log)].call = "spawn"
             /\ log[Len(log)].cmd = commands.add_bigquery_admin_role_cmd
             /\ log'[i].company_id = commands.company_id
             /\ log'[i].project_id = commands.project_id
             /\ ~\E j \in 1..Len(log) :
                    log[j].call = "update_bq" /\ log[j].company_id = log'[i].company_id
       /\ (CreationReturns /\ ~dry_run /\ success_count = total_commands)
             => Cardinality(NewWriteBacks) = 1
       /\ (CreationReturns /\ (dry_run \/ success_count < total_commands))
             => (NewWriteBacks = {} /\ companies' = companies)
      ]_vars

\* C12: a real run that provisioned two companies and wrote both project ids back
C12_Witness ==
    /\ script = "v1" /\ choice = "2" /\ summary.printed
    /\ summary.successful = 2
    /\ Cardinality({i \in 1..Len(log) : log[i].call = "update_bq"}) = 2
    /\ \A k \in 1..Len(companies) : companies[k].company_project_id # None

(***************************************************************************)
(* Properties of the authorized-views script                               *)
(***************************************************************************)
\* the source query of the views script raised: it ran, there were rows to
\* return, and none came back
ViewsQueryFailed ==
    /\ log # <<>> /\ log[1].call = "query"
    /\ WithProjects(companies) # <<>> /\ results = <<>>

\* the permission preflight of the views script stopped the run
ViewsPreflightFailed ==
    /\ choice = "3" /\ pc = "done" /\ ~summary.printed
    /\ log # <<>> /\ log[Len(log)].call = "list_datasets"

\* C13: the views script ends with status 1 after an invalid choice, a failed
\* source query or a failed permission preflight, and with status 0 after a
\* run without errors
C13_ExitStatus ==
    (script = "views" /\ pc = "done")
    => /\ (choice \notin {"1", "2", "3"} \/ ViewsQueryFailed \/ ViewsPreflightFailed)
             => exit_status = 1
       /\ (summary.printed /\ totals.total_errors = 0) => exit_status = 0

\* the requests made while a company is processed
ItemCalls == {"get_dataset", "get_table", "token", "GET", "PATCH"}

ResultProjects == {results[k].company_project_id : k \in 1..Len(results)}

\* C14: in the real mode of the views script, a request for a company
\* (dataset lookup, view lookup, token, GET or PATCH on a dataset) is made
\* only after list_datasets was called on every distinct project of the
\* companies, each of which lets its datasets be listed; a run whose preflight failed made none.
C14_PreflightBeforeItems ==
    (script = "views" /\ choice = "3")
    => /\ \A i \in 1..Len(log) :
             log[i].call \in ItemCalls
             => \A p \in ResultProjects :
                   /\ conditions[p].can_list
                   /\ \E j \in 1..(i - 1) :
                         log[j].call = "list_datasets" /\ log[j].project = p
       /\ (pc \in ItemStates => to_check = {})
       /\ ViewsPreflightFailed
             => (\A i \in 1..Len(log) : log[i].call \notin ItemCalls)

\* C14: of two projects the first passed the check and the second did not
C14_Witness ==
    /\ script = "views" /\ ViewsPreflightFailed
    /\ Len(results) = 2 /\ Len(log) = 3
    /\ log[2].call = "list_datasets" /\ log[3].call = "list_datasets"
    /\ log[2].project # log[3].project

\* C15: a company of the views script that lacks its servicetitan_* or its
\* bronze dataset has its error flag set and is counted under the companies
\* with errors, not under the successful ones
C15_AbsentDatasetFails ==
    (script = "views" /\ choice = "3")
    => /\ (pc = "company" /\ idx > 1
             /\ (~result.servicetitan_dataset_found \/ ~result.bronze_dataset_found))
             => result.error
       /\ (summary.printed
             /\ (totals.total_servicetitan_datasets < Len(results)
                   \/ totals.total_bronze_datasets < Len(results)))
             => (totals.failed_companies > 0
                 /\ totals.successful_companies < Len(results))

(***************************************************************************)
(* proyects/create_gcp_projects.py: GCPProjectCreator                      *)
(***************************************************************************)
\* lines 252-257
required_services == <<"bigquery", "bigqueryconnection", "storage", "iam">>

\* lines 159-164
required_roles == <<"roles/bigquery.admin", "roles/bigquery.connectionUser",
                    "roles/bigquery.dataEditor", "roles/bigquery.jobUser">>

\* lines 213 and 226-232: the dataset of line 213, then additional_datasets
CreatorDatasets == <<"fivetran", "bronze", "silver", "gold", "management", "settings">>

\* line 130
service_account_id == "fivetran-service-account"

\* line 67: the project id of a company
CreatorProjectId(new_name) == Lower(Replace(new_name, " ", <<"-">>))

\* the call one step of the creator logs
CreatorCall(call, p, arg) == ApiCall(call, p, <<>>, arg)

\* lines 65-103: create_gcp_project; the value returned and what exists afterwards.
\* AlreadyExists returns the project id, every other failure returns None.
create_gcp_project(new_name, existing, fail) ==
    LET pid == CreatorProjectId(new_name)
        calls == <<CreatorCall("create_project", pid, "")>>
    IN  IF ProjectRes(pid) \in existing
        THEN [value |-> pid, cloud |-> existing, calls |-> calls]
        ELSE IF pid = <<>> \/ fail # 0
        THEN [value |-> None, cloud |-> existing, calls |-> calls]
        ELSE [value |-> pid, cloud |-> existing \cup {ProjectRes(pid)}, calls |-> calls]

\* lines 105-125: enable_services asks for every service, whatever failed before
enable_services(pid, existing, fail) ==
    [value |-> fail = 0,
     cloud |-> existing \cup {Res("service", pid, required_services[k]) :
                                 k \in {j \in 1..Len(required_services) : j # fail}},
     calls |-> [k \in 1..Len(required_services) |->
                   CreatorCall("enable_service", pid, required_services[k])]]

\* lines 127-153: create_service_account; AlreadyExists returns the email
create_service_account(pid, existing, fail) ==
    LET sa == Res("service_account", pid, service_account_id)
        calls == <<CreatorCall("create_service_account", pid, service_account_id)>>
    IN  IF sa \in existing THEN [value |-> TRUE, cloud |-> existing, calls |-> calls]
        ELSE IF fail # 0 THEN [value |-> FALSE, cloud |-> existing, calls |-> calls]
        ELSE [value |-> TRUE, cloud |-> existing \cup {sa}, calls |-> calls]

\* lines 169-203: the requests assign_roles_to_service_account makes for one role
RoleCalls(pid, existing, k, fail) ==
    LET role == required_roles[k]
        get == CreatorCall("get_iam_policy", pid, role)
    IN  IF k = fail \/ Res("binding", pid, role) \in existing THEN <<get>>
        ELSE <<get, CreatorCall("set_iam_policy", pid, role)>>

RECURSIVE ConcatUpTo(_, _)
ConcatUpTo(f, n) == IF n = 0 THEN <<>> ELSE ConcatUpTo(f, n - 1) \o f[n]

\* lines 155-205: assign_roles_to_service_account goes through every role
assign_roles_to_service_account(pid, existing, fail) ==
    [value |-> fail = 0,
     cloud |-> existing \cup {Res("binding", pid, required_roles[k]) :
                                 k \in {j \in 1..Len(required_roles) : j # fail}},
     calls |-> ConcatUpTo([k \in 1..Len(required_roles) |->
                              RoleCalls(pid, existing, k, fail)],
                          Len(required_roles))]

\* the first dataset whose create_dataset raises: it exists already or the
\* call fails; one more than the number of datasets when none raises
FirstRaise(pid, existing, fail) ==
    LET raising == {k \in 1..Len(CreatorDatasets) :
                       k = fail \/ Res("dataset", pid, CreatorDatasets[k]) \in existing}
    IN  IF raising = {} THEN Len(CreatorDatasets) + 1
        ELSE CHOOSE k \in raising : \A j \in raising : k <= j

\* lines 207-245: setup_bigquery creates the datasets one after the other
\* inside one try: the first create_dataset that raises ends the function
setup_bigquery(pid, existing, fail) ==
    LET stop == FirstRaise(pid, existing, fail)
        tried == Min(stop, Len(CreatorDatasets))
    IN  [value |-> stop > Len(CreatorDatasets),
         cloud |-> existing \cup {Res("dataset", pid, CreatorDatasets[k]) :
                                     k \in 1..(stop - 1)},
         calls |-> [k \in 1..tried |->
                       CreatorCall("create_dataset", pid, CreatorDatasets[k])]]

(***************************************************************************)
(* create_gcp_projects.py: GCPProjectCreator.run                           *)
(***************************************************************************)
\* the rows get_companies_data reads
CreatorNames == {AcmeWest, <<>>, None}

CreatorTables ==
    UNION {{[i \in 1..n |-> [company_id |-> CompanyIds[i],
                             company_new_name |-> k[i],
                             company_project_id |-> None]] :
            k \in [1..n -> CreatorNames]} : n \in 0..MaxRows}

\* what an earlier run left behind in the project of the first company
CreatorProject == CreatorProjectId(AcmeWest)
CreatorClouds ==
    {{}, {ProjectRes(CreatorProject), Res("dataset", CreatorProject, "bronze"),
          Res("service_account", CreatorProject, service_account_id),
          Res("binding", CreatorProject, required_roles[1])}}

\* the call of a step that fails: 0 for none
FailAt(n) == {0} \cup (IF faults < MaxFaults THEN 1..n ELSE {})

\* what the caller of a step sees of its return
Outcome(value) == IF value THEN "ok" ELSE "failed"

\* the values the loop body of run has in hand for the company: the returns
\* of the functions it called
CreatorFresh(row) ==
    [company_id |-> row.company_id, project_id |-> None, services |-> "unset",
     sa_email |-> "unset", roles |-> "unset", bigquery |-> "unset"]

creatorIdle ==
    /\ choice = Unset /\ dry_run = FALSE /\ confirm = Unset /\ confirm2 = Unset
    /\ exit_status = -1
    /\ results = <<>> /\ idx = 0
    /\ count = 0 /\ successful_projects = 0 /\ failed_projects = 0
    /\ successful_commands = 0 /\ successful_deletions = 0 /\ failed_deletions = 0
    /\ commands = NoCommands /\ cmd_i = 0 /\ success_count = 0 /\ total_commands = 0
    /\ log = <<>> /\ faults = 0 /\ summary = NoSummary

Creator_Init ==
    /\ script = "creator" /\ pc = "query"
    /\ creatorIdle /\ GenIdle /\ ApiIdle
    /\ companies \in CreatorTables
    /\ cloud \in CreatorClouds

creatorFixed == <<script, promptVars, companies, tallyVars, execVars, summary,
                  company_new_name, company_id, targetVars, to_check, stage, view_i,
                  dataset_i, views_authorized, views_total, totals, last, ncalls,
                  expiration_ms>>

\* where the loop of line 259 goes after the company at idx
CreatorNextCompany ==
    /\ idx' = idx + 1
    /\ pc' = IF idx + 1 <= Len(results) THEN "project" ELSE "finally"

\* line 250: get_companies_data (lines 34-63); it raises again what the query
\* raised, and the except of line 284 ends the run
Creator_GetCompanies(ok) ==
    /\ script = "creator" /\ pc = "query"
    /\ ok \/ faults < MaxFaults
    /\ log' = Append(log, CreatorCall("query", <<>>, ""))
    /\ IF ok
       THEN /\ results' = companies
            /\ idx' = 1
            /\ pc' = IF Len(companies) >= 1 THEN "project" ELSE "finally"
            /\ UNCHANGED faults
       ELSE /\ faults' = faults + 1
            /\ pc' = "finally"
            /\ UNCHANGED <<results, idx>>
    /\ UNCHANGED <<creatorFixed, cloud, result, project_id, exit_status>>

\* lines 260-265: create_gcp_project; a NULL company_new_name raises at line 67,
\* outside the try of the function, and the except of line 284 ends the run
Creator_CreateProject(fail) ==
    /\ script = "creator" /\ pc = "project"
    /\ LET row == results[idx]
       IN  IF row.company_new_name = None
           THEN /\ fail = 0
                /\ pc' = "finally"
                /\ result' = CreatorFresh(row)
                /\ UNCHANGED <<log, cloud, faults, idx, project_id>>
           ELSE LET r == create_gcp_project(row.company_new_name, cloud, fail)
                IN  /\ fail # 0 =>
                          ProjectRes(CreatorProjectId(row.company_new_name)) \notin cloud
                    /\ log' = log \o r.calls
                    /\ cloud' = r.cloud
                    /\ faults' = faults + Bool2Nat(fail # 0)
                    /\ project_id' = r.value
                    /\ result' = [CreatorFresh(row) EXCEPT !.project_id = r.value]
                    /\ IF r.value \in {None, <<>>}
                       THEN CreatorNextCompany
                       ELSE pc' = "services" /\ UNCHANGED idx
    /\ UNCHANGED <<creatorFixed, results, exit_status>>

\* lines 267-269: enable_services; a failure is a warning
Creator_EnableServices(fail) ==
    /\ script = "creator" /\ pc = "services"
    /\ LET r == enable_services(project_id, cloud, fail)
       IN  /\ log' = log \o r.calls
           /\ cloud' = r.cloud
           /\ result' = [result EXCEPT !.services = Outcome(r.value)]
    /\ faults' = faults + Bool2Nat(fail # 0)
    /\ pc' = "account"
    /\ UNCHANGED <<creatorFixed, results, idx, project_id, exit_status>>

\* lines 271-273: create_service_account; without an email the roles are skipped
Creator_CreateServiceAccount(fail) ==
    /\ script = "creator" /\ pc = "account"
    /\ LET r == create_service_account(project_id, cloud, fail)
       IN  /\ fail # 0 => Res("service_account", project_id, service_account_id) \notin cloud
           /\ log' = log \o r.calls
           /\ cloud' = r.cloud
           /\ result' = [result EXCEPT !.sa_email = Outcome(r.value)]
           /\ pc' = IF r.value THEN "roles" ELSE "bigquery"
    /\ faults' = faults + Bool2Nat(fail # 0)
    /\ UNCHANGED <<creatorFixed, results, idx, project_id, exit_status>>

\* lines 274-276: assign_roles_to_service_account; a failure is a warning
Creator_AssignRoles(fail) ==
    /\ script = "creator" /\ pc = "roles"
    /\ LET r == assign_roles_to_service_account(project_id, cloud, fail)
       IN  /\ log' = log \o r.calls
           /\ cloud' = r.cloud
           /\ result' = [result EXCEPT !.roles = Outcome(r.value)]
    /\ faults' = faults + Bool2Nat(fail # 0)
    /\ pc' = "bigquery"
    /\ UNCHANGED <<creatorFixed, results, idx, project_id, exit_status>>

\* lines 278-282: setup_bigquery; a failure is a warning, then the next company
Creator_SetupBigQuery(fail) ==
    /\ script = "creator" /\ pc = "bigquery"
    /\ LET r == setup_bigquery(project_id, cloud, fail)
       IN  /\ fail # 0 => fail <= FirstRaise(project_id, cloud, 0)
           /\ log' = log \o r.calls
           /\ cloud' = r.cloud
           /\ result' = [result EXCEPT !.bigquery = Outcome(r.value)]
    /\ faults' = faults + Bool2Nat(fail # 0)
    /\ CreatorNextCompany
    /\ UNCHANGED <<creatorFixed, results, project_id, exit_status>>

\* lines 284-287 and main, lines 289-319: the finally logs the end of the
\* process and main returns
Creator_Finally ==
    /\ script = "creator" /\ pc = "finally"
    /\ pc' = "done"
    /\ exit_status' = 0
    /\ UNCHANGED <<creatorFixed, results, idx, log, cloud, faults, result, project_id>>

Creator_Next ==
    \/ \E ok \in BOOLEAN : Creator_GetCompanies(ok)
    \/ \E fail \in FailAt(1) : Creator_CreateProject(fail)
    \/ \E fail \in FailAt(Len(required_services)) : Creator_EnableServices(fail)
    \/ \E fail \in FailAt(1) : Creator_CreateServiceAccount(fail)
    \/ \E fail \in FailAt(Len(required_roles)) : Creator_AssignRoles(fail)
    \/ \E fail \in FailAt(Len(CreatorDatasets)) : Creator_SetupBigQuery(fail)
    \/ Creator_Finally

SpecCreator == Creator_Init /\ [][Creator_Next]_vars

(***************************************************************************)
(* The two provisioning scripts: one run of one of them                    *)
(***************************************************************************)
SpecProvision ==
    (V1_Init \/ V1_CreationInit \/ Creator_Init) /\ [][V1_Next \/ Creator_Next]_vars

\* the provisioning step a logged call belongs to, numbered in the order
\* create project, enable API, create datasets, create service account,
\* bind role; 0 for a call that provisions nothing
StepOf(e) ==
    IF e.call = "spawn"
    THEN CASE e.cmd.op = "projects_create" -> 1
           [] e.cmd.op = "services_enable" -> 2
           [] e.cmd.op = "bq_mk" -> 3
           [] e.cmd.op = "service_accounts_create" -> 4
           [] e.cmd.op = "add_iam_policy_binding" -> 5
           [] OTHER -> 0
    ELSE CASE e.call = "create_project" -> 1
           [] e.call = "enable_service" -> 2
           [] e.call = "create_dataset" -> 3
           [] e.call = "create_service_account" -> 4
           [] e.call \in {"get_iam_policy", "set_iam_policy"} -> 5
           [] OTHER -> 0

\* the step of a call of GCPProjectCreator.run in the order of its comments
\* "1." to "5." (lines 262-278)
CreatorStepOf(e) ==
    CASE e.call = "create_project" -> 1
      [] e.call = "enable_service" -> 2
      [] e.call = "create_service_account" -> 3
      [] e.call \in {"get_iam_policy", "set_iam_policy"} -> 4
      [] e.call = "create_dataset" -> 5
      [] OTHER -> 0

IsProvisioning(e) == StepOf(e) > 0

\* the provisioning calls made so far, in the order they were made
Provisioned == SelectSeq(log, IsProvisioning)

ProjectOf(e) == IF e.call = "spawn" THEN e.cmd.project ELSE e.project

\* a run that creates: the creator, or gcloud_projects_V1 in real creation
Creating ==
    \/ script = "creator"
    \/ script = "v1_creation" /\ ~dry_run
    \/ script = "v1" /\ choice = "2"

\* the operations of one WorkItem of gcloud_projects_V1, in the order of
\* lines 185-209
V1Operations ==
    <<"projects_create", "services_enable", "bq_mk", "bq_mk", "bq_mk", "bq_mk",
      "bq_mk", "bq_mk", "service_accounts_create", "add_iam_policy_binding">>

\* the position of the i-th provisioning call inside its WorkItem
V1Position(i) == ((i - 1) % Len(V1Operations)) + 1

C16_WitnessCreator ==
    /\ script = "creator" /\ idx = 2
    /\ result.bigquery = "ok" /\ result.roles = "ok" /\ result.services = "ok"

\* an Action of the WorkItem in hand has failed: a command of
\* execute_project_creation returned False (lines 185-209), or a step of the
\* loop body of GCPProjectCreator.run did (lines 263-280)
ItemActionFailed ==
    \/ /\ script \in {"v1", "v1_creation"} /\ pc = "creating" /\ ~dry_run
       /\ success_count < total_commands
    \/ /\ script = "creator" /\ pc \in {"services", "account", "roles", "bigquery"}
       /\ "failed" \in {result.services, result.sa_email, result.roles}

\* C17: once an Action of a WorkItem has failed, no further provisioning call
\* is made for that WorkItem.
C17_FailureStopsItem ==
    [][ItemActionFailed =>
           \A i \in (Len(log) + 1)..Len(log') : ~IsProvisioning(log'[i])]_vars

(***************************************************************************)
(* iam/create_custom_role_sheets_analyst.py: --action create-all           *)
(***************************************************************************)
\* line 74
CUSTOM_ROLE_ID == "pphSheetsAnalyst"

RoleRes(p) == Res("role", p, CUSTOM_ROLE_ID)

\* lines 120-128: role_exists; gcloud iam roles describe exits 0 for a role
\* that exists
role_exists(p, existing) == RoleRes(p) \in existing

\* lines 130-195: create_role; rc is the exit code of gcloud iam roles create
create_role(p, existing, dry, rc) ==
    LET describe == Cmd("roles_describe", p, CUSTOM_ROLE_ID)
        create == Cmd("roles_create", p, CUSTOM_ROLE_ID)
    IN  IF role_exists(p, existing)
        THEN [value |-> FALSE, cloud |-> existing, cmds |-> <<describe>>]
        ELSE IF dry
        THEN [value |-> TRUE, cloud |-> existing, cmds |-> <<describe>>]
        ELSE [value |-> rc = 0,
              cloud |-> IF rc = 0 THEN existing \cup {RoleRes(p)} ELSE existing,
              cmds |-> <<describe, create>>]

\* lines 282-310: assign_role_to_user
assign_role_to_user(p, existing, email, dry, rc) ==
    LET describe == Cmd("roles_describe", p, CUSTOM_ROLE_ID)
        bind == Cmd("add_iam_policy_binding", p, email)
    IN  IF ~role_exists(p, existing)
        THEN [value |-> FALSE, cloud |-> existing, cmds |-> <<describe>>]
        ELSE IF dry
        THEN [value |-> TRUE, cloud |-> existing, cmds |-> <<describe>>]
        ELSE [value |-> rc = 0,
              cloud |-> IF rc = 0 THEN existing \cup {Res("binding", p, email)}
                        ELSE existing,
              cmds |-> <<describe, bind>>]

\* lines 312-346: assign_role_to_users; the users that failed, and the commands
RECURSIVE assign_role_to_users(_, _, _, _, _)
assign_role_to_users(p, existing, users, dry, rc) ==
    IF users = <<>> THEN [failed |-> <<>>, cloud |-> existing, cmds |-> <<>>]
    ELSE LET one == assign_role_to_user(p, existing, Head(users), dry, rc)
             rest == assign_role_to_users(p, one.cloud, Tail(users), dry, rc)
         IN  [failed |-> (IF one.value THEN <<>> ELSE <<Head(users)>>) \o rest.failed,
              cloud |-> rest.cloud,
              cmds |-> one.cmds \o rest.cmds]

\* line 426 and the return of line 501
RoleResults == [success |-> <<>>, failed |-> <<>>, skipped |-> <<>>]

\* lines 448-479: the list of the results the company is appended to; what
\* assign_role_to_users returned is used for a warning only
RecordCompany(r, cid, created, exists_after, assign_failed) ==
    IF created THEN [r EXCEPT !.success = Append(@, cid)]
    ELSE IF exists_after THEN [r EXCEPT !.skipped = Append(@, cid)]
    ELSE [r EXCEPT !.failed = Append(@, cid)]

\* lines 601-604: the users of --users, split at the commas; none without it
RoleUsers == {<<>>, <<"ana@example.com">>}

roleFixed == <<script, choice, dry_run, confirm2, companies, tallyVars, execVars, genVars,
               targetVars, to_check, stage, view_i, dataset_i, views_authorized,
               views_total, last, ncalls, expiration_ms>>

\* main, lines 503-574: --action create-all; dry_run is --dry-run and confirm
\* holds the users the command line gave
Role_Init ==
    /\ script = "role" /\ pc = "query"
    /\ choice = "create-all" /\ dry_run \in BOOLEAN
    /\ confirm \in RoleUsers /\ confirm2 = Unset
    /\ exit_status = -1
    /\ results = <<>> /\ idx = 0
    /\ count = 0 /\ successful_projects = 0 /\ failed_projects = 0
    /\ successful_commands = 0 /\ successful_deletions = 0 /\ failed_deletions = 0
    /\ commands = NoCommands /\ cmd_i = 0 /\ success_count = 0 /\ total_commands = 0
    /\ log = <<>> /\ faults = 0 /\ summary = NoSummary
    /\ GenIdle
    /\ conditions = <<>> /\ access = <<>> /\ expiration = <<>>
    /\ to_check = {} /\ result = NoResult /\ stage = "" /\ view_i = 0 /\ dataset_i = 0
    /\ views_authorized = 0 /\ views_total = 0 /\ totals = RoleResults
    /\ last = NoCall /\ ncalls = 0 /\ expiration_ms = 0
    /\ companies \in Tables
    /\ cloud \in {{}, {ProjectRes(OldProject), RoleRes(OldProject)}}

\* lines 419-423: get_companies_with_projects (lines 381-414) returns [] when
\* the query raises; without companies the empty results are returned
Role_GetCompanies(ok) ==
    /\ script = "role" /\ pc = "query"
    /\ ok \/ faults < MaxFaults
    /\ log' = Append(log, [call |-> "query"])
    /\ faults' = IF ok THEN faults ELSE faults + 1
    /\ LET rows == IF ok THEN WithProjects(companies) ELSE <<>>
       IN  /\ results' = rows
           /\ idx' = IF rows = <<>> THEN 0 ELSE 1
           /\ pc' = IF rows = <<>> THEN "exit" ELSE "company"
    /\ UNCHANGED <<roleFixed, confirm, exit_status, cloud, summary, result, totals>>

\* lines 428-479: one company of the loop
Role_Company(rc, rc_assign) ==
    /\ script = "role" /\ pc = "company" /\ idx <= Len(results)
    /\ LET row == results[idx]
           p == row.company_project_id
           made == create_role(p, cloud, dry_run, rc)
           again == ~made.value
           exists_after == again /\ role_exists(p, made.cloud)
           users == IF made.value \/ exists_after THEN confirm ELSE <<>>
           assigned == assign_role_to_users(p, made.cloud, users, dry_run, rc_assign)
           cmds == made.cmds
                   \o (IF again THEN <<Cmd("roles_describe", p, CUSTOM_ROLE_ID)>> ELSE <<>>)
                   \o assigned.cmds
           failures == Bool2Nat(rc # 0 /\ Len(made.cmds) = 2)
                       + Bool2Nat(rc_assign # 0 /\ \E i \in 1..Len(assigned.cmds) :
                                        assigned.cmds[i].op = "add_iam_policy_binding")
       IN  /\ rc = 0 \/ Len(made.cmds) = 2
           /\ rc_assign = 0 \/ \E i \in 1..Len(assigned.cmds) :
                                  assigned.cmds[i].op = "add_iam_policy_binding"
           /\ faults + failures <= MaxFaults
           /\ faults' = faults + failures
           /\ log' = log \o [i \in 1..Len(cmds) |-> [call |-> "spawn", cmd |-> cmds[i]]]
           /\ cloud' = assigned.cloud
           /\ totals' = RecordCompany(totals, row.company_id, made.value, exists_after,
                                      assigned.failed)
           /\ result' = [company_id |-> row.company_id, created |-> made.value,
                         assign_failed |-> assigned.failed]
    /\ idx' = idx + 1
    /\ UNCHANGED <<roleFixed, confirm, pc, exit_status, results, summary>>

\* lines 481-501: the summary
Role_Summary ==
    /\ script = "role" /\ pc = "company" /\ idx > Len(results)
    /\ summary' = [printed |-> TRUE, total |-> Len(results),
                   successful |-> Len(totals.success), failed |-> Len(totals.failed)]
    /\ pc' = "exit"
    /\ UNCHANGED <<roleFixed, confirm, exit_status, results, idx, log, cloud, faults,
                   result, totals>>

\* lines 606-611: main exits with 0 when no company failed, with 1 otherwise
Role_Exit ==
    /\ script = "role" /\ pc = "exit"
    /\ exit_status' = IF Len(totals.failed) = 0 THEN 0 ELSE 1
    /\ pc' = "done"
    /\ UNCHANGED <<roleFixed, confirm, results, idx, log, cloud, faults, summary,
                   result, totals>>

Role_Next ==
    \/ \E ok \in BOOLEAN : Role_GetCompanies(ok)
    \/ \E rc \in {0, 1}, rc_assign \in {0, 1} : Role_Company(rc, rc_assign)
    \/ Role_Summary
    \/ Role_Exit

SpecRole == Role_Init /\ [][Role_Next]_vars

(***************************************************************************)
(* Ctrl-C while the companies are being processed                          *)
(***************************************************************************)
\* the exit status of a Python process that ends on a KeyboardInterrupt no
\* handler caught: 1, or 130 when the interpreter dies of SIGINT
UncaughtInterruptStatus == {1, 130}

\* gcloud_projects_V1.py: the handlers of lines 420 and 430 (and 326, 337, 505,
\* 516, 595, 605) catch Exception, which KeyboardInterrupt is not; the real
\* modes run their finally (lines 436-438, 611-613) on the way out
V1_Interrupt(rc, st) ==
    /\ script = "v1" /\ pc \in {"rows", "creating"} /\ idx <= Len(results)
    /\ IF choice \in {"2", "4"}
       THEN /\ rc \in ReturnCodes(ResetProjectCmd)
            /\ Spawn(ResetProjectCmd, FALSE, rc)
       ELSE /\ rc = 0
            /\ UNCHANGED <<log, cloud, faults>>
    /\ pc' = "interrupted"
    /\ exit_status' = st
    /\ UNCHANGED <<script, promptVars, companies, results, idx, tallyVars, execVars,
                   summary, genVars, apiVars>>

\* configure_dataset_table_expiration.py: the handler of line 361 catches
\* Exception; nothing between the loop and the interpreter catches the rest
Exp_Interrupt(st) ==
    /\ script = "expiration" /\ pc \in {"company", "datasets", "company_done"}
    /\ idx <= Len(results)
    /\ pc' = "interrupted"
    /\ exit_status' = st
    /\ UNCHANGED <<choice, dry_run, confirm, results, idx, log, summary, expiration,
                   expiration_ms, result, dataset_i, totals, expIdle>>

\* create_custom_role_sheets_analyst.py, lines 613-615: main prints that the
\* operation was interrupted and exits with 1
Role_Interrupt ==
    /\ script = "role" /\ pc = "company" /\ idx <= Len(results)
    /\ pc' = "interrupted"
    /\ exit_status' = 1
    /\ UNCHANGED <<roleFixed, confirm, results, idx, log, cloud, faults, summary,
                   result, totals>>

Interrupt ==
    \/ \E rc \in {0, 1}, st \in UncaughtInterruptStatus : V1_Interrupt(rc, st)
    \/ \E st \in UncaughtInterruptStatus : Exp_Interrupt(st)
    \/ Role_Interrupt

SpecInterrupted ==
    (V1_Init \/ Exp_Init \/ Role_Init)
        /\ [][V1_Next \/ Exp_Next \/ Role_Next \/ Interrupt]_vars

\* C18: a run interrupted while its WorkItems are processed has printed the
\* summary of the tallies and exits with a non-zero status.
C18_InterruptSummary ==
    pc = "interrupted" => summary.printed /\ exit_status > 0

(***************************************************************************)
(* iam/assign_call_table_permissions.py: the permission on the call table  *)
(***************************************************************************)
\* line 243
central_project == "platform-partners-des"

\* lines 139 and 168: data-analytics@{central_project}.iam.gserviceaccount.com
service_account_email == "data-analytics@platform-partners-des.iam.gserviceaccount.com"

\* line 180: the member and the role of the binding the command adds
BoundMember == "VIEW:platform-partners-des.silver.vw_consolidated_call"
BoundRole == "roles/bigquery.dataViewer"

\* line 152: the text looked for in the name of a special group
ServiceAccountsText ==
    <<"s", "e", "r", "v", "i", "c", "e", "A", "c", "c", "o", "u", "n", "t", "s">>

\* Python's "needle in hay" on strings
Contains(needle, hay) ==
    \E k \in 0..(Len(hay) - Len(needle)) :
        \A j \in 1..Len(needle) : hay[k + j] = needle[j]

\* the entries of an access list; keys are the keys the entry has
UserAccess(role, email) ==
    [keys |-> {"role", "userByEmail"}, role |-> role, userByEmail |-> email,
     specialGroup |-> <<>>, member |-> ""]
GroupAccess(role, group) ==
    [keys |-> {"role", "specialGroup"}, role |-> role, userByEmail |-> "",
     specialGroup |-> group, member |-> ""]
MemberAccess(role, member) ==
    [keys |-> {"role", "member"}, role |-> role, userByEmail |-> "",
     specialGroup |-> <<>>, member |-> member]

\* lines 134-160: check_permission_exists on what bq show printed; rc is the
\* exit code of bq show
check_permission_exists(has_access, entries, rc) ==
    /\ rc = 0
    /\ has_access
    /\ \E i \in 1..Len(entries) :
          \/ /\ "userByEmail" \in entries[i].keys
             /\ entries[i].userByEmail = service_account_email
          \/ /\ "specialGroup" \in entries[i].keys
             /\ Contains(ServiceAccountsText, entries[i].specialGroup)

\* line 180: the command
BindCmd(p, d, t) ==
    [op |-> "bq_add_iam_policy_binding", project |-> p, arg |-> t, dataset |-> d,
     member |-> BoundMember, role |-> BoundRole]

SkipCmd == [op |-> "SKIP"]

\* lines 163-190: assign_data_viewer_permission
assign_data_viewer_permission(p, d, t, has_access, entries, dry, rc) ==
    IF ~dry /\ check_permission_exists(has_access, entries, rc)
    THEN SkipCmd
    ELSE BindCmd(p, d, t)

(***************************************************************************)
(* lines 268-296 of process_company_call_table called on one table,        *)
(* several times in a row                                                  *)
(***************************************************************************)
ProjectOwners == <<"p", "r", "o", "j", "e", "c", "t", "O", "w", "n", "e", "r", "s">>

\* the entries the table may start with
AccessEntries ==
    {GroupAccess("OWNER", ProjectOwners),
     UserAccess("OWNER", "ana@example.com"),
     UserAccess("OWNER", service_account_email),
     UserAccess("READER", service_account_email),
     MemberAccess("roles/bigquery.dataEditor", BoundMember),
     MemberAccess(BoundRole, BoundMember)}

AccessLists == UNION {[1..n -> AccessEntries] : n \in 0..MaxCalls}

CallTableProject == RowProjects[1]

CallTable_Init ==
    /\ script = "call_table" /\ pc = "call"
    /\ choice = Unset /\ confirm = Unset /\ confirm2 = Unset /\ exit_status = -1
    /\ dry_run \in BOOLEAN
    /\ results = <<>> /\ idx = 0
    /\ count = 0 /\ successful_projects = 0 /\ failed_projects = 0
    /\ successful_commands = 0 /\ successful_deletions = 0 /\ failed_deletions = 0
    /\ commands = NoCommands /\ cmd_i = 0 /\ success_count = 0 /\ total_commands = 0
    /\ log = <<>> /\ faults = 0 /\ summary = NoSummary
    /\ GenIdle
    /\ companies = <<>> /\ cloud = {}
    /\ conditions \in {[access_key |-> b] : b \in BOOLEAN}
    /\ access \in AccessLists
    /\ conditions.access_key \/ access = <<>>
    /\ expiration = <<>>
    /\ to_check = {} /\ result = NoResult /\ stage = "" /\ view_i = 0 /\ dataset_i = 0
    /\ views_authorized = 0 /\ views_total = 0 /\ totals = NoTotals
    /\ last = NoCall /\ ncalls = 0 /\ expiration_ms = 0

\* lines 268-296: the command is asked for and, unless it is SKIP, executed
\* (execute_command, lines 193-214); rc_show and rc are the exit codes of
\* bq show and of the command
CallTable_Assign(rc_show, rc) ==
    /\ script = "call_table" /\ pc = "call"
    /\ ncalls < MaxCalls
    /\ LET d == ServicetitanId(CallTableProject)
           cmd == assign_data_viewer_permission(CallTableProject, d, "call",
                                                conditions.access_key, access,
                                                dry_run, rc_show)
           checked == ~dry_run
           run == execute_command(cmd, dry_run, rc)
           spawned == cmd # SkipCmd /\ run.spawned
           failures == Bool2Nat(checked /\ rc_show # 0) + Bool2Nat(spawned /\ rc # 0)
       IN  /\ rc_show = 0 \/ checked
           /\ rc = 0 \/ spawned
           /\ faults + failures <= MaxFaults
           /\ faults' = faults + failures
           /\ log' = log
                     \o (IF checked
                         THEN <<[call |-> "spawn",
                                 cmd |-> Cmd("bq_show", CallTableProject, "call")]>>
                         ELSE <<>>)
                     \o (IF spawned THEN <<[call |-> "spawn", cmd |-> cmd]>> ELSE <<>>)
           /\ access' = IF spawned /\ rc = 0 /\ conditions.access_key
                        THEN Append(access, MemberAccess(BoundRole, BoundMember))
                        ELSE access
           /\ last' = [made |-> TRUE, dry_run |-> dry_run, cmd |-> cmd,
                       before |-> access, rc_show |-> rc_show,
                       permission_assigned |-> cmd = SkipCmd \/ run.ok]
    /\ ncalls' = ncalls + 1
    /\ UNCHANGED <<script, pc, promptVars, exit_status, results, idx, tallyVars, execVars,
                   cloud, companies, summary, genVars, conditions, expiration, to_check,
                   procVars, totals, expiration_ms>>

CallTable_Next == \E rc_show \in {0, 1}, rc \in {0, 1} : CallTable_Assign(rc_show, rc)

SpecCallTable == CallTable_Init /\ [][CallTable_Next]_vars

\* the access list has the pair the command binds
HasBoundPair(entries) ==
    \E i \in 1..Len(entries) :
        entries[i].member = BoundMember /\ entries[i].role = BoundRole

\* C19: the binding is skipped only when the access list the check read has
\* an entry with the very member and role the command would bind.
C19_SkipOnlyOnExactPair ==
    (last.made /\ last.cmd = SkipCmd) => HasBoundPair(last.before)

(***************************************************************************)
(* The tallies of the expiration script and of the custom role script      *)
(***************************************************************************)
SpecTally == (Exp_Init \/ Role_Init) /\ [][Exp_Next \/ Role_Next]_vars

\* the loop has finished a company whose check or Action failed: the listing
\* of the datasets of its project was refused (expiration script, real mode),
\* or a user could not be given the role (custom role script)
CompanyFailedNow ==
    /\ idx \in 1..Len(results) /\ idx' = idx + 1
    /\ \/ /\ script = "expiration" /\ choice = "3"
          /\ ~conditions[results[idx].company_project_id].can_list
       \/ /\ script = "role"
          /\ result'.assign_failed # <<>>

\* the companies counted as successful, and as failed
CountedSuccessful(t) ==
    IF script = "role" THEN Len(t.success) ELSE t.successful_companies
CountedFailed(t) ==
    IF script = "role" THEN Len(t.failed) ELSE t.failed_companies

\* C20: a company for which a check or an Action failed is not counted as
\* successful and increases the failed count.
C20_ErrorsCounted ==
    [][CompanyFailedNow =>
           /\ CountedSuccessful(totals') = CountedSuccessful(totals)
           /\ CountedFailed(totals') = CountedFailed(totals) + 1]_vars

(***************************************************************************)
(* create_custom_role_sheets_analyst.py: --action create                   *)
(***************************************************************************)
\* main, lines 560-578: --action create on the project of --project
Role_CreateInit ==
    /\ script = "role" /\ pc = "create"
    /\ choice = "create" /\ dry_run \in BOOLEAN
    /\ confirm = <<>> /\ confirm2 = Unset
    /\ exit_status = -1
    /\ results = <<>> /\ idx = 0
    /\ count = 0 /\ successful_projects = 0 /\ failed_projects = 0
    /\ successful_commands = 0 /\ successful_deletions = 0 /\ failed_deletions = 0
    /\ commands = NoCommands /\ cmd_i = 0 /\ success_count = 0 /\ total_commands = 0
    /\ log = <<>> /\ faults = 0 /\ summary = NoSummary
    /\ company_new_name = <<>> /\ company_id = 0 /\ project_id = OldProject
    /\ conditions = <<>> /\ access = <<>> /\ expiration = <<>>
    /\ to_check = {} /\ result = NoResult /\ stage = "" /\ view_i = 0 /\ dataset_i = 0
    /\ views_authorized = 0 /\ views_total = 0 /\ totals = RoleResults
    /\ last = NoCall /\ ncalls = 0 /\ expiration_ms = 0
    /\ companies = <<>>
    /\ cloud \in {{}, {ProjectRes(OldProject)}, {ProjectRes(OldProject), RoleRes(OldProject)}}

\* lines 580-583: create_role, then sys.exit(0 if success else 1)
Role_Create(rc) ==
    /\ script = "role" /\ pc = "create"
    /\ LET made == create_role(project_id, cloud, dry_run, rc)
       IN  /\ rc = 0 \/ (Len(made.cmds) = 2 /\ faults < MaxFaults)
           /\ faults' = faults + Bool2Nat(rc # 0)
           /\ log' = log \o [i \in 1..Len(made.cmds) |->
                                [call |-> "spawn", cmd |-> made.cmds[i]]]
           /\ cloud' = made.cloud
           /\ exit_status' = IF made.value THEN 0 ELSE 1
    /\ pc' = "done"
    /\ UNCHANGED <<roleFixed, confirm, results, idx, summary, result, totals>>

SpecRoleActions ==
    (Role_Init \/ Role_CreateInit)
        /\ [][Role_Next \/ \E rc \in {0, 1} : Role_Create(rc)]_vars

\* the project the step of the custom role script works on
RoleProjectNow ==
    IF choice = "create" THEN project_id ELSE results[idx].company_project_id

\* the custom role script is about to create the role in a project that has it
RoleConflict ==
    /\ script = "role"
    /\ \/ choice = "create" /\ pc = "create"
       \/ choice = "create-all" /\ pc = "company" /\ idx \in 1..Len(results)
    /\ role_exists(RoleProjectNow, cloud)

\* C21: creating the role where it exists issues no create command, does not
\* count the project as failed and does not end with the failure status.
C21_ExistingRoleSkipped ==
    [][RoleConflict =>
           /\ \A i \in (Len(log) + 1)..Len(log') : log'[i].cmd.op # "roles_create"
           /\ Len(totals'.failed) = Len(totals.failed)
           /\ exit_status' # 1]_vars

(***************************************************************************)
(* The expiration script run again on what it left                         *)
(***************************************************************************)
\* the dataset the loop of process_company_datasets is at
ExpKeyNow == <<results[idx].company_project_id,
               list_datasets_in_project(conditions[results[idx].company_project_id])[dataset_i]>>

\* a dataset went through the loop of a real run without being counted as failed
DatasetNotFailedNow ==
    /\ script = "expiration" /\ choice = "3" /\ pc = "datasets"
    /\ dataset_i' = dataset_i + 1
    /\ result'.datasets_failed = result.datasets_failed

\* C22: in a real run, a dataset that was listed and not counted as failed
\* has the requested expiration from then on, and configure_dataset_expiration
\* called again on it with the same value answers skipped without an update
\* call; the expiration of a dataset changes in no other step.
C22_SecondRunSkips ==
    [][/\ DatasetNotFailedNow =>
             LET k == ExpKeyNow
                 again == configure_dataset_expiration(conditions[k[1]], k[2],
                                                       expiration'[k], expiration_ms, FALSE)
             IN  /\ expiration'[k] = expiration_ms
                 /\ again.success /\ again.skipped
                 /\ \A i \in 1..Len(again.calls) : again.calls[i] # "update_dataset"
                 /\ again.value = expiration_ms
                 /\ \A other \in DOMAIN expiration \ {k} :
                       expiration'[other] = expiration[other]
       /\ (script = "expiration" /\ ~DatasetNotFailedNow) => expiration' = expiration]_vars

\* C22: a real run that configured one dataset and found another one already
\* configured has printed its summary
C22_Witness ==
    /\ script = "expiration" /\ choice = "3" /\ summary.printed
    /\ totals.total_configured > 0 /\ totals.total_skipped > 0
    /\ \E k \in DOMAIN expiration : expiration[k] = expiration_ms

(***************************************************************************)
(* iam/configure_authorized_views.py: AuthorizedViewManager                *)
(***************************************************************************)
\* the requests of the manager that can fail
ManagerFaultPoints == {"get", "update"}

\* a plausible slip: the entries are compared by the name of the view only
WithoutViewNamed(acc, p, d, t) ==
    SelectSeq(acc, LAMBDA e : ~(e.kind = "view" /\ e.tableId = t))

\* lines 166-190: the entries that stay when the view is removed
WithoutView(acc, p, d, t) ==
    SelectSeq(acc, LAMBDA e : ~(e.kind = "view" /\ e.projectId = p
                                 /\ e.datasetId = d /\ e.tableId = t))

\* a plausible slip: the entry is appended without looking for it first
configure_authorized_view_nosearch(acc, p, d, t, dry, F) ==
    IF "get" \in F
    THEN [value |-> FALSE, access |-> acc, calls |-> <<"get_dataset">>]
    ELSE IF dry
    THEN [value |-> TRUE, access |-> acc, calls |-> <<"get_dataset">>]
    ELSE IF "update" \in F
    THEN [value |-> FALSE, access |-> acc, calls |-> <<"get_dataset", "update_dataset">>]
    ELSE [value |-> TRUE, access |-> Append(acc, ViewEntry(p, d, t)),
          calls |-> <<"get_dataset", "update_dataset">>]

\* lines 43-129: configure_authorized_view on a dataset whose access entries
\* are acc: the value returned, the entries afterwards, the calls made
configure_authorized_view(acc, p, d, t, dry, F) ==
    IF "get" \in F
    THEN [value |-> FALSE, access |-> acc, calls |-> <<"get_dataset">>]
    ELSE IF HasView(acc, p, d, t)
    THEN [value |-> TRUE, access |-> acc, calls |-> <<"get_dataset">>]
    ELSE IF dry
    THEN [value |-> TRUE, access |-> acc, calls |-> <<"get_dataset">>]
    ELSE IF "update" \in F
    THEN [value |-> FALSE, access |-> acc, calls |-> <<"get_dataset", "update_dataset">>]
    ELSE [value |-> TRUE, access |-> Append(acc, ViewEntry(p, d, t)),
          calls |-> <<"get_dataset", "update_dataset">>]

\* a plausible slip: every entry of kind view is filtered out
remove_authorized_view_allviews(acc, p, d, t, dry, F) ==
    LET entries == SelectSeq(acc, LAMBDA e : e.kind # "view")
    IN  IF "get" \in F
        THEN [value |-> FALSE, access |-> acc, calls |-> <<"get_dataset">>]
        ELSE IF Len(entries) = Len(acc)
        THEN [value |-> FALSE, access |-> acc, calls |-> <<"get_dataset">>]
        ELSE IF dry
        THEN [value |-> TRUE, access |-> acc, calls |-> <<"get_dataset">>]
        ELSE IF "update" \in F
        THEN [value |-> FALSE, access |-> acc,
              calls |-> <<"get_dataset", "update_dataset">>]
        ELSE [value |-> TRUE, access |-> entries,
              calls |-> <<"get_dataset", "update_dataset">>]

\* lines 166-210: remove_authorized_view
remove_authorized_view(acc, p, d, t, dry, F) ==
    LET entries == WithoutView(acc, p, d, t)
    IN  IF "get" \in F
        THEN [value |-> FALSE, access |-> acc, calls |-> <<"get_dataset">>]
        ELSE IF Len(entries) = Len(acc)
        THEN [value |-> FALSE, access |-> acc, calls |-> <<"get_dataset">>]
        ELSE IF dry
        THEN [value |-> TRUE, access |-> acc, calls |-> <<"get_dataset">>]
        ELSE IF "update" \in F
        THEN [value |-> FALSE, access |-> acc,
              calls |-> <<"get_dataset", "update_dataset">>]
        ELSE [value |-> TRUE, access |-> entries,
              calls |-> <<"get_dataset", "update_dataset">>]

(***************************************************************************)
(* The manager called on one dataset, several times in a row               *)
(***************************************************************************)
ManagerFaultSets == {F \in SUBSET ManagerFaultPoints : Cardinality(F) <= MaxFaults}

\* the access entries the dataset starts with
ManagerAccessLists ==
    {<<OwnerEntry>>,
     <<OwnerEntry, ViewEntry(CallProject, SilverDataset, SILVER_VIEWS[1])>>,
     <<ViewEntry(OldProject, SilverDataset, SILVER_VIEWS[1]), OwnerEntry>>,
     <<ViewEntry(CallProject, SilverDataset, SILVER_VIEWS[1]), OwnerEntry,
       ViewEntry(CallProject, SilverDataset, SILVER_VIEWS[2]),
       ViewEntry(CallProject, SilverDataset, SILVER_VIEWS[1])>>}

NoManagerCall ==
    [op |-> "", view |-> "", value |-> FALSE, calls |-> <<>>, before |-> <<>>]

\* what a call of the manager leaves behind: itself and the call before it
ManagerCall(op, t, r, before) ==
    [op |-> op, view |-> t, value |-> r.value, calls |-> r.calls, before |-> before]

Manager_Init ==
    /\ script = "view_manager" /\ pc = "call"
    /\ choice = Unset /\ confirm = Unset /\ confirm2 = Unset /\ exit_status = -1
    /\ dry_run \in BOOLEAN
    /\ results = <<>> /\ idx = 0
    /\ count = 0 /\ successful_projects = 0 /\ failed_projects = 0
    /\ successful_commands = 0 /\ successful_deletions = 0 /\ failed_deletions = 0
    /\ commands = NoCommands /\ cmd_i = 0 /\ success_count = 0 /\ total_commands = 0
    /\ log = <<>> /\ faults = 0 /\ summary = NoSummary
    /\ GenIdle
    /\ companies = <<>> /\ cloud = {}
    /\ conditions = <<>> /\ expiration = <<>>
    /\ access \in {[k \in {CallKey} |-> a] : a \in ManagerAccessLists}
    /\ to_check = {} /\ result = NoResult /\ stage = "" /\ view_i = 0 /\ dataset_i = 0
    /\ views_authorized = 0 /\ views_total = 0 /\ totals = NoTotals
    /\ last = [made |-> FALSE, this |-> NoManagerCall, prev |-> NoManagerCall]
    /\ ncalls = 0 /\ expiration_ms = 0

\* one call of the manager, with what it returned r
ManagerCalled(op, t, F, r) ==
    /\ access' = [access EXCEPT ![CallKey] = r.access]
    /\ log' = log \o CallEntries(r.calls, CallKey, t)
    /\ last' = [made |-> TRUE, this |-> ManagerCall(op, t, r, access[CallKey]),
                prev |-> last.this]
    /\ ncalls' = ncalls + 1
    /\ faults' = faults + Cardinality(F)
    /\ UNCHANGED <<script, pc, promptVars, exit_status, results, idx, tallyVars, execVars,
                   cloud, companies, summary, genVars, conditions, expiration, to_check,
                   procVars, totals, expiration_ms>>

\* lines 43-129: one call of configure_authorized_view
Manager_Configure(t, F) ==
    /\ script = "view_manager" /\ pc = "call"
    /\ ncalls < MaxCalls
    /\ ManagerCalled("configure", t, F,
                     configure_authorized_view(access[CallKey], CallProject, SilverDataset,
                                               t, dry_run, F))

\* lines 166-210: one call of remove_authorized_view
Manager_Remove(t, F) ==
    /\ script = "view_manager" /\ pc = "call"
    /\ ncalls < MaxCalls
    /\ ManagerCalled("remove", t, F,
                     remove_authorized_view(access[CallKey], CallProject, SilverDataset,
                                            t, dry_run, F))

Manager_Next ==
    \/ \E t \in CallViews, F \in ManagerFaultSets : Manager_Configure(t, F)
    \/ \E t \in CallViews, F \in ManagerFaultSets : Manager_Remove(t, F)

SpecManager == Manager_Init /\ [][Manager_Next]_vars

\* the two ways of authorizing a view, each called on one dataset
SpecAuthorize ==
    (Views_CallInit \/ Manager_Init)
        /\ [][ViewsCall_Next
              \/ \E t \in CallViews, F \in ManagerFaultSets : Manager_Configure(t, F)]_vars

\* a call that authorizes a view on the dataset has just returned: the view,
\* whether it reported success, and the entry it is to add
AuthorizeReturned ==
    /\ script \in {"views_call", "view_manager"}
    /\ ncalls' = ncalls + 1
    /\ script = "view_manager" => last'.this.op = "configure"

AuthorizedView == IF script = "views_call" THEN last'.view ELSE last'.this.view

AuthorizeSucceeded == IF script = "views_call" THEN last'.success ELSE last'.this.value

\* C23: a call that authorizes a view in real mode and succeeds on a dataset
\* that did not have the view leaves the access list as it was with the
\* view's entry appended; every other call (dry-run, failed, or the view
\* already there) leaves the access list as it was.
C23_AuthorizeOnlyAppends ==
    [][AuthorizeReturned =>
          LET before == access[CallKey]
              t == AuthorizedView
          IN  IF ~dry_run /\ AuthorizeSucceeded
                 /\ ~HasView(before, CallProject, SilverDataset, t)
              THEN access'[CallKey] = Append(before, ViewEntry(CallProject, SilverDataset, t))
              ELSE access'[CallKey] = before]_vars

\* C23: the manager added a view to a dataset that had another one
C23_Witness ==
    /\ script = "view_manager" /\ ~dry_run /\ last.made
    /\ last.this.op = "configure" /\ last.this.value
    /\ Len(last.this.before) = 2
    /\ Len(access[CallKey]) = 3
    /\ access[CallKey][3] = ViewEntry(CallProject, SilverDataset, SILVER_VIEWS[2])

\* C23: process_dataset_authorization added a view through the REST calls
C23_WitnessApi ==
    /\ script = "views_call" /\ ~dry_run /\ last.made /\ last.success /\ ~last.skipped
    /\ access[CallKey][Len(access[CallKey])] =
           ViewEntry(CallProject, SilverDataset, last.view)

\* the last call of the manager, and the one before it
ManagerRemoved == script = "view_manager" /\ last.made /\ last.this.op = "remove"

RemovedEntry == ViewEntry(CallProject, SilverDataset, last.this.view)

ManagerUpdated(c) == \E i \in 1..Len(c.calls) : c.calls[i] = "update_dataset"

\* C24: remove_authorized_view in real mode, when it succeeds, leaves the
\* entries that differ from the view's triple, in their order, and none of
\* the entries equal to it; when no entry equals the triple it returns
\* failure without an update call, in dry-run as in real mode; a failed or
\* dry-run call leaves the list as it was.
C24_RemoveExactlyTheView ==
    ManagerRemoved =>
        LET before == last.this.before
            after == access[CallKey]
        IN  /\ (\A i \in 1..Len(before) : before[i] # RemovedEntry)
                => ~last.this.value /\ ~ManagerUpdated(last.this) /\ after = before
            /\ (last.this.value /\ ~dry_run)
                => after = SelectSeq(before, LAMBDA e : e # RemovedEntry)
            /\ (~last.this.value \/ dry_run) => after = before

\* C24: a real removal took the two copies of a view and left the owner and
\* the other view
C24_Witness ==
    /\ ManagerRemoved /\ ~dry_run /\ last.this.value
    /\ Len(last.this.before) = 4
    /\ access[CallKey] = <<OwnerEntry, ViewEntry(CallProject, SilverDataset, SILVER_VIEWS[2])>>

\* C24: a dry-run removal of a view the dataset does not list failed
C24_WitnessNoMatch ==
    /\ ManagerRemoved /\ dry_run /\ ~last.this.value /\ faults = 0
    /\ Len(last.this.before) = 2

\* C25: in real mode, on a dataset without the view, configure followed by
\* remove of the same view, both succeeding, leaves the entries the dataset
\* had before the two calls; a configure that follows a successful configure
\* of the same view leaves the list as the first one left it.
C25_ConfigureRemoveRoundTrip ==
    (script = "view_manager" /\ ~dry_run /\ last.made
     /\ last.prev.op = "configure" /\ last.prev.value
     /\ last.this.view = last.prev.view)
    => /\ (last.this.op = "remove" /\ last.this.value
           /\ ~HasView(last.prev.before, CallProject, SilverDataset, last.prev.view))
            => access[CallKey] = last.prev.before
       /\ last.this.op = "configure"
            => access[CallKey] = last.this.before

\* C25: a view was added to a dataset that lists the same view of another
\* project and then removed
C25_Witness ==
    /\ script = "view_manager" /\ ~dry_run /\ last.made
    /\ last.prev.op = "configure" /\ last.prev.value
    /\ last.this.op = "remove" /\ last.this.value
    /\ last.this.view = last.prev.view
    /\ Len(last.prev.before) = 2 /\ Len(last.this.before) = 3
    /\ last.prev.before[1].projectId = OldProject
    /\ access[CallKey] = last.prev.before

\* C25: a view was added and then configured again
C25_WitnessTwice ==
    /\ script = "view_manager" /\ ~dry_run /\ last.made
    /\ last.prev.op = "configure" /\ last.prev.value
    /\ last.this.op = "configure" /\ last.this.view = last.prev.view
    /\ Len(last.prev.before) = 1 /\ Len(access[CallKey]) = 2

\* the result of the company being processed is the one in result
ViewsCompanyOpen ==
    /\ script = "views" /\ idx \in 1..Len(results)
    /\ pc \in {"views", "bronze", "company_done"}

\* every view of SILVER_VIEWS exists in silver and, in real mode, is in the
\* access list of dataset d of the company's project
EveryViewAuthorized(d) ==
    LET p == results[idx].company_project_id
    IN  \A i \in 1..Len(SILVER_VIEWS) :
            /\ SILVER_VIEWS[i] \in conditions[p].silver
            /\ ~dry_run => HasView(access[<<p, d>>], p, SilverDataset, SILVER_VIEWS[i])

\* C26: a dataset is reported view-authorized only if every view of
\* SILVER_VIEWS exists in silver and was authorized or already authorized on
\* it; a missing view or a failed authorization makes the flag false.
C26_FlagNeedsEveryView ==
    ViewsCompanyOpen =>
        /\ result.servicetitan_view_authorized
            => EveryViewAuthorized(ServicetitanId(results[idx].company_project_id))
        /\ result.bronze_view_authorized => EveryViewAuthorized(BronzeId)

\* the positions of the reset command in the commands run so far
ResetRuns ==
    {i \in 1..Len(log) : log[i].call = "spawn" /\ log[i].cmd = ResetProjectCmd}

\* the user typed the tokens the real mode asks for
V1Confirmed ==
    IF choice = "2" THEN confirm = "SI" ELSE confirm = "ELIMINAR" /\ confirm2 = "SI"

\* C27: in the real modes the reset of the active project is not run before
\* the run is over; a confirmed run ends with exactly one reset, which is the
\* last call of the run, also when the query failed or an item failed; a
\* run whose confirmation was declined ends without any.
C27_ResetOnceAtEnd ==
    (script = "v1" /\ choice \in {"2", "4"}) =>
        /\ pc # "done" => ResetRuns = {}
        /\ pc = "done" =>
              IF V1Confirmed
              THEN ResetRuns = {Len(log)}
              ELSE ResetRuns = {}

\* C27: a confirmed real run whose query failed ended with the reset alone
C27_WitnessQueryFailed ==
    /\ script = "v1" /\ choice = "2" /\ pc = "done" /\ V1Confirmed
    /\ ~summary.printed /\ Len(log) = 2 /\ ResetRuns = {2}

\* C27: a confirmed real run provisioned a project, had a failed item, and
\* ended with the reset
C27_Witness ==
    /\ script = "v1" /\ choice = "2" /\ pc = "done" /\ V1Confirmed
    /\ summary.printed /\ summary.successful > 0 /\ summary.failed > 0
    /\ ResetRuns = {Len(log)}

\* C27: a declined real run ended without a command
C27_WitnessDeclined ==
    /\ script = "v1" /\ choice \in {"2", "4"} /\ pc = "done" /\ ~V1Confirmed
    /\ log = <<>>

\* the names of the other WorkItem: short ones, ones that share the start of
\* a long name, ones whose digits look like an id
PeerNames ==
    {h \o Pad(k) : h \in {<<>>, <<"A">>, <<"A", " ">>}, k \in PadCounts}
        \cup {AcmeWest, Bangs, <<"A", " ", "7">>, <<"A", " ", "4", "5">>}

\* C28: the identifier generate_project_id returns for a WorkItem with a
\* non-negative company_id differs from every identifier it returns for a
\* WorkItem with another non-negative company_id, whatever the two names,
\* also when both identifiers were cut to the 30-character limit.
C28_DistinctIds ==
    (GenReturned /\ company_id >= 0) =>
        \A n \in PeerNames, c \in GenIds :
            (c >= 0 /\ c # company_id /\ n # <<>>)
                => generate_project_id(n, c) # project_id

\* C28: an identifier was cut to the limit, and so is the one of a WorkItem
\* with the same long name and another id
C28_Witness ==
    /\ GenReturned /\ company_id = 7
    /\ company_new_name = <<"A">> \o Pad(MaxPad)
    /\ Len(project_id) = MaxProjectIdLen
    /\ Len(Untruncated(company_new_name, 45)) > MaxProjectIdLen
    /\ Len(generate_project_id(company_new_name, 45)) = MaxProjectIdLen
    /\ generate_project_id(company_new_name, 45) # project_id

\* C29: every call of setup_bigquery attempts the creation of each of the six
\* datasets, also after one of them failed or existed already.
C29_EveryDatasetAttempted ==
    [][(script = "creator" /\ pc = "bigquery") =>
          \A k \in 1..Len(CreatorDatasets) :
              \E i \in (Len(log) + 1)..Len(log') :
                  log'[i] = CreatorCall("create_dataset", project_id, CreatorDatasets[k])]_vars

(***************************************************************************)
(* proyects/gcloud_projects_inbox.py                                       *)
(***************************************************************************)
\* lines 13-17, 25: the fixed project of the inbox
InboxProjectId == <<"p", "p", "h", "-", "i", "n", "b", "o", "x">>

\* line 34
InboxDatasets == <<"bronze", "silver", "staging">>

\* line 40
InboxBuckets == <<"pph-inbox_servicetitan", "pph-inbox_fivetran">>

\* lines 19-25: the names generate_gcp_commands has bound when line 28 runs:
\* its parameter and the three assignments before it
InboxLocals == {"row", "company_id", "company_name", "project_id"}

\* lines 5-11 and the defs: the names bound at module level
InboxGlobals ==
    {"bigquery", "subprocess", "sys", "PROJECT_SOURCE", "DATASET_NAME", "TABLE_NAME",
     "generate_project_id", "generate_gcp_commands", "execute_command",
     "update_company_project_in_bq", "execute_project_creation", "dry_run_mode",
     "real_execution_mode", "main"}

\* Python's lookup of a name inside generate_gcp_commands: NameError when the
\* name is bound neither in the function nor in the module (no builtin has
\* the names used here)
InboxBound(name) == name \in InboxLocals \cup InboxGlobals

\* lines 28, 54: the names the f-string of line 28 reads
InboxNamesRead == {"project_id", "company_new_name"}

\* the outcome of a call of generate_gcp_commands that raised
InboxRaised == [project_id |-> None, raised |-> "NameError"]

\* lines 27-63: the dict generate_gcp_commands builds
InboxCommands(row) ==
    [company_id |-> row.company_id,
     company_new_name |-> row.company_new_name,
     project_id |-> InboxProjectId,
     create_project_cmd |-> Cmd("projects_create", InboxProjectId, ""),
     enable_apis_cmd |-> Cmd("services_enable", InboxProjectId, "bigquery.googleapis.com"),
     create_datasets_cmds |->
         [i \in 1..Len(InboxDatasets) |-> Cmd("bq_mk", InboxProjectId, InboxDatasets[i])],
     create_buckets_cmds |->
         [i \in 1..Len(InboxBuckets) |-> Cmd("gsutil_mb", InboxProjectId, InboxBuckets[i])],
     create_service_account_cmd |->
         Cmd("service_accounts_create", InboxProjectId, "fivetran-account-service"),
     add_bigquery_admin_role_cmd |->
         Cmd("add_iam_policy_binding", InboxProjectId, "roles/bigquery.admin"),
     add_storage_admin_role_cmd |->
         Cmd("add_iam_policy_binding", InboxProjectId, "roles/storage.admin"),
     add_storage_object_admin_role_cmd |->
         Cmd("add_iam_policy_binding", InboxProjectId, "roles/storage.objectAdmin")]

\* lines 19-64: generate_gcp_commands of the inbox script; line 28 reads
\* company_new_name, which the function never assigns
inbox_generate_gcp_commands(row) ==
    IF \A name \in InboxNamesRead : InboxBound(name)
    THEN InboxCommands(row)
    ELSE InboxRaised

\* lines 119-160: the order in which execute_project_creation runs the commands
InboxCreationSequence(c) ==
    <<c.create_project_cmd, c.enable_apis_cmd>> \o c.create_datasets_cmds
        \o c.create_buckets_cmds
        \o <<c.create_service_account_cmd, c.add_bigquery_admin_role_cmd,
             c.add_storage_admin_role_cmd, c.add_storage_object_admin_role_cmd>>

\* line 367
InboxResetProjectCmd == Cmd("config_set_project", <<"platform-partners-des">>, "")

\* lines 191-197, 301-307: WHERE company_project_id IS NULL
InboxRows(table) == SelectSeq(table, LAMBDA r : r.company_project_id = None)

\* lines 369-388: main()
Inbox_Main(c) ==
    /\ script = "inbox" /\ pc = "main"
    /\ choice' = c
    /\ dry_run' = (c = "1")
    /\ pc' = CASE c = "1" -> "query"
               [] c = "2" -> "confirm"
               [] OTHER -> "done"
    /\ exit_status' = IF c \in {"1", "2"} THEN exit_status ELSE 1
    /\ UNCHANGED <<script, confirm, confirm2, companies, results, idx, tallyVars,
                   execVars, log, cloud, faults, summary, genVars, apiVars>>

\* lines 282-286: real_execution_mode asks once
Inbox_Confirm(answer) ==
    /\ script = "inbox" /\ pc = "confirm"
    /\ confirm' = answer
    /\ IF answer = "SI"
       THEN pc' = "query" /\ exit_status' = exit_status
       ELSE pc' = "done" /\ exit_status' = 0
    /\ UNCHANGED <<script, choice, dry_run, confirm2, companies, results, idx,
                   tallyVars, execVars, log, cloud, faults, summary, genVars, apiVars>>

\* lines 178-208, 288-318: the source query; when it raises, the outer except
\* prints the error and the real mode goes on to its finally
Inbox_Query(ok) ==
    /\ script = "inbox" /\ pc = "query"
    /\ ok \/ faults < MaxFaults
    /\ log' = Append(log, [call |-> "query"])
    /\ IF ok
       THEN /\ results' = InboxRows(companies)
            /\ idx' = 1
            /\ count' = 0
            /\ successful_projects' = 0 /\ failed_projects' = 0
            /\ successful_commands' = 0
            /\ successful_deletions' = 0 /\ failed_deletions' = 0
            /\ pc' = "rows"
            /\ UNCHANGED <<faults, exit_status>>
       ELSE /\ faults' = faults + 1
            /\ pc' = IF choice = "2" THEN "finally" ELSE "done"
            /\ exit_status' = IF choice = "2" THEN exit_status ELSE 0
            /\ UNCHANGED <<results, idx, tallyVars>>
    /\ UNCHANGED <<script, promptVars, companies, execVars, cloud, summary, genVars, apiVars>>

\* lines 213-260: dry_run_mode, one row; the exception of the generation is
\* caught at line 256
Inbox_DryRow ==
    /\ script = "inbox" /\ pc = "rows" /\ choice = "1" /\ idx <= Len(results)
    /\ count' = count + 1
    /\ LET row == results[idx]
           c == inbox_generate_gcp_commands(row)
       IN  successful_commands' =
               IF row.company_project_id = None /\ c # InboxRaised
               THEN successful_commands + 1 ELSE successful_commands
    /\ idx' = idx + 1
    /\ UNCHANGED <<script, pc, promptVars, exit_status, results, successful_projects,
                   failed_projects, successful_deletions, failed_deletions, execVars,
                   envVars, summary, genVars, apiVars>>

\* lines 322-352: real_execution_mode, a row up to the call of
\* execute_project_creation; the exception of the generation is caught at
\* line 349 and counts the row as failed
Inbox_Row ==
    /\ script = "inbox" /\ pc = "rows" /\ choice = "2" /\ idx <= Len(results)
    /\ count' = count + 1
    /\ LET row == results[idx]
           c == inbox_generate_gcp_commands(row)
       IN  IF row.company_project_id # None
           THEN /\ idx' = idx + 1
                /\ UNCHANGED <<pc, failed_projects, execVars>>
           ELSE IF c = InboxRaised
           THEN /\ failed_projects' = failed_projects + 1
                /\ idx' = idx + 1
                /\ UNCHANGED <<pc, execVars>>
           ELSE /\ commands' = c
                /\ cmd_i' = 1 /\ success_count' = 0 /\ total_commands' = 0
                /\ pc' = "creating"
                /\ UNCHANGED <<idx, failed_projects>>
    /\ UNCHANGED <<script, promptVars, exit_status, results, successful_projects,
                   successful_commands, successful_deletions, failed_deletions,
                   envVars, summary, genVars, apiVars>>

\* lines 119-160: execute_project_creation runs its next command
Inbox_ExecuteCommand(rc) ==
    /\ script \in {"inbox", "inbox_creation"} /\ pc = "creating"
    /\ cmd_i <= Len(InboxCreationSequence(commands))
    /\ LET cmd == InboxCreationSequence(commands)[cmd_i]
       IN  /\ IF dry_run THEN rc = 0 ELSE rc \in ReturnCodes(cmd)
           /\ Spawn(cmd, dry_run, rc)
           /\ total_commands' = total_commands + 1
           /\ success_count' = IF execute_command(cmd, dry_run, rc).ok
                               THEN success_count + 1 ELSE success_count
    /\ cmd_i' = cmd_i + 1
    /\ UNCHANGED <<script, pc, promptVars, exit_status, companies, results, idx,
                   tallyVars, commands, summary, genVars, apiVars>>

\* lines 162-169 and 339-352: the end of execute_project_creation, with the
\* write-back (which raises when the UPDATE fails), and the tally of the row
Inbox_FinishCreation(wb_ok) ==
    /\ script \in {"inbox", "inbox_creation"} /\ pc = "creating"
    /\ cmd_i > Len(InboxCreationSequence(commands))
    /\ LET all_success == (success_count = total_commands)
           write_back == all_success /\ ~dry_run
       IN  /\ IF write_back THEN wb_ok \/ faults < MaxFaults ELSE wb_ok
           /\ log' = IF write_back
                     THEN Append(log, [call |-> "update_bq",
                                       company_id |-> commands.company_id,
                                       project_id |-> commands.project_id])
                     ELSE log
           /\ companies' = IF write_back /\ wb_ok
                           THEN TableAfterUpdate(commands.company_id, commands.project_id)
                           ELSE companies
           /\ faults' = IF write_back /\ ~wb_ok THEN faults + 1 ELSE faults
           /\ IF script = "inbox"
              THEN /\ successful_projects' =
                          IF all_success /\ wb_ok THEN successful_projects + 1
                          ELSE successful_projects
                   /\ failed_projects' =
                          IF all_success /\ wb_ok THEN failed_projects
                          ELSE failed_projects + 1
                   /\ idx' = idx + 1
                   /\ pc' = "rows"
                   /\ UNCHANGED exit_status
              ELSE /\ pc' = "done"
                   /\ exit_status' = IF wb_ok THEN 0 ELSE 1
                   /\ UNCHANGED <<successful_projects, failed_projects, idx>>
    /\ UNCHANGED <<script, promptVars, results, count, successful_commands,
                   successful_deletions, failed_deletions, execVars, cloud, summary,
                   genVars, apiVars>>

\* lines 262-265, 354-357: the summary after the last row
Inbox_Summary ==
    /\ script = "inbox" /\ pc = "rows" /\ idx > Len(results)
    /\ summary' =
           IF choice = "2"
           THEN [printed |-> TRUE, total |-> count,
                 successful |-> successful_projects, failed |-> failed_projects]
           ELSE [printed |-> TRUE, total |-> count,
                 successful |-> successful_commands,
                 failed |-> count - successful_commands]
    /\ pc' = IF choice = "2" THEN "finally" ELSE "done"
    /\ exit_status' = IF choice = "2" THEN exit_status ELSE 0
    /\ UNCHANGED <<script, promptVars, results, idx, tallyVars, execVars, envVars,
                   genVars, apiVars>>

\* lines 365-367: finally, back to the main project
Inbox_Finally(rc) ==
    /\ script = "inbox" /\ pc = "finally"
    /\ rc \in ReturnCodes(InboxResetProjectCmd)
    /\ Spawn(InboxResetProjectCmd, FALSE, rc)
    /\ pc' = "done"
    /\ exit_status' = 0
    /\ UNCHANGED <<script, promptVars, companies, results, idx, tallyVars, execVars,
                   summary, genVars, apiVars>>

Inbox_Next ==
    \/ \E c \in Choices : Inbox_Main(c)
    \/ \E a \in ConfirmInputs : Inbox_Confirm(a)
    \/ \E ok \in BOOLEAN : Inbox_Query(ok)
    \/ Inbox_DryRow
    \/ Inbox_Row
    \/ \E rc \in {0, 1} : Inbox_ExecuteCommand(rc)
    \/ \E ok \in BOOLEAN : Inbox_FinishCreation(ok)
    \/ Inbox_Summary
    \/ \E rc \in {0, 1} : Inbox_Finally(rc)

\* what exists in the target system when the inbox script starts
InboxClouds == {{}, {ProjectRes(InboxProjectId)}}

\* the script started from the command line
Inbox_Init ==
    /\ script = "inbox" /\ pc = "main"
    /\ Idle /\ GenIdle /\ ApiIdle
    /\ companies \in Tables
    /\ cloud \in InboxClouds

\* execute_project_creation(commands, dry_run) called on a dict of the shape
\* generate_gcp_commands is written to return
Inbox_CreationInit ==
    /\ script = "inbox_creation" /\ pc = "creating"
    /\ choice = Unset /\ confirm = Unset /\ confirm2 = Unset /\ exit_status = -1
    /\ dry_run \in BOOLEAN
    /\ companies \in Tables
    /\ cloud \in InboxClouds
    /\ results = <<>> /\ idx = 0
    /\ count = 0 /\ successful_projects = 0 /\ failed_projects = 0
    /\ successful_commands = 0 /\ successful_deletions = 0 /\ failed_deletions = 0
    /\ \E i \in DOMAIN companies :
          /\ companies[i].company_project_id = None
          /\ commands = InboxCommands(companies[i])
    /\ cmd_i = 1 /\ success_count = 0 /\ total_commands = 0
    /\ log = <<>> /\ faults = 0 /\ summary = NoSummary
    /\ GenIdle /\ ApiIdle

SpecInbox == (Inbox_Init \/ Inbox_CreationInit) /\ [][Inbox_Next]_vars

\* the provisioning commands the run has executed, in order
InboxProvisioned ==
    SelectSeq(log, LAMBDA e : e.call = "spawn" /\ e.cmd # InboxResetProjectCmd)

\* C30: when a real run of the inbox script has gone through its rows, the
\* commands it executed are, row after row, the eleven provisioning commands
\* of the row in their order: create project, enable API, three datasets,
\* two buckets, service account, three role bindings; no row failed at the
\* generation of its commands.
C30_InboxProvisionsEveryRow ==
    (script = "inbox" /\ choice = "2" /\ summary.printed) =>
        LET n == Len(InboxCreationSequence(InboxCommands(results[1])))
            sp == InboxProvisioned
        IN  results # <<>> =>
               /\ n = 11
               /\ Len(sp) = n * Len(results)
               /\ \A j \in 1..Len(sp) :
                     sp[j].cmd =
                         InboxCreationSequence(
                             InboxCommands(results[((j - 1) \div n) + 1]))[((j - 1) % n) + 1]

====
